---- MODULE Spec2Model ----
(***************************************************************************)
(* Inspection lifecycle and approval authorization of the quality-control  *)
(* system: the Supabase tables with their row-level-security policies (the *)
(* store), and the page handlers that call the store from a browser        *)
(* session holding a loaded, possibly stale, copy of the data.             *)
(*                                                                         *)
(* Every store request is one step; a handler that awaits two store        *)
(* requests is two steps, so that other sessions can act in between.       *)
(***************************************************************************)
EXTENDS Integers, Sequences, FiniteSets, Bags, TLC

\* ------------------------------------------------------------------ bounds
MaxInspections == 1
MaxHistory == 2
MaxResults == 1
MaxImages == 1
MaxRoleChanges == 2
MaxSpecs == 2
MaxSpecChanges == 2
MaxProducts == 2
MaxRoleRequests == 1
MaxInspectionNumber == 2
MaxFetches == 2

\* ------------------------------------------------------------ value domains
Users == {"u1", "u2", "u3"}

AppRole == {"auditor", "team_leader", "hof_auditor", "quality_head"}

NoRole == "none"

\* an identity that the loaded users list has no entry for
Unlisted == "unlisted"

InspectionStatus ==
  {"pending_team_leader", "pending_hof_auditor", "pending_quality_head",
   "approved", "rejected"}

Actions == {"approved", "rejected"}

\* free-text columns, two distinguishable contents each
Remarks == {"r1", "r2"}
ActualValues == {"10.5", "12"}
ImageUrls == {"img1", "img2"}
Comments == {"", " ", "ok"}

NoInspection == [id |-> 0, status |-> "none"]

SpecificationType == {"dimensional", "visual", "functional", "compliance"}

\* a nullable number: the empty sequence for null, <<n>> for the number n;
\* numbers are counted in tenths
Null == << >>

\* parseFloat of a text that is no number
NaN == << >>

\* null in a text column
NullText == "null"

\* the rows the specification dialog can save: a dimensional specification
\* "length" with the tolerance 10.0 - 11.0, a functional specification
\* "switch" with required remarks and a functional specification "power"
\* without
SpecInputs ==
  {[parameter_name |-> "length", specification_type |-> "dimensional",
    tolerance_min |-> <<100>>, tolerance_max |-> <<110>>,
    remarks_required |-> FALSE],
   [parameter_name |-> "switch", specification_type |-> "functional",
    tolerance_min |-> Null, tolerance_max |-> Null,
    remarks_required |-> TRUE],
   [parameter_name |-> "power", specification_type |-> "functional",
    tolerance_min |-> Null, tolerance_max |-> Null,
    remarks_required |-> FALSE]}

\* texts typed into the Result and the Remarks inputs of the inspection
\* form; both inputs start empty
FormValues == {"abc", "10.5", "12"}
FormRemarks == {" ", "ok"}

\* the CreateInspection page before a product is selected
NoForm == [specifications |-> << >>, results |-> << >>]

\* the registration code that get_role_for_registration_code compares with
bootstrap_code == "QA-BOOTSTRAP-2024"

\* codes typed into the registration form: the bootstrap code, no code, and
\* a code nobody issued
RegistrationCodes == {bootstrap_code, "", "QA-2024"}

\* the caller of a request sent without a session: auth.uid() is null
anon == "anon"

\* a call of fetchUsers that has sent no request yet
FetchCalled == [pc |-> "called", profiles |-> {}]

\* no direct call of assign_role_after_registration between its statements
NoCall == [_user_id |-> "none", assigned_role |-> NoRole]

\* an identity that is not signing up and has not signed up
NoSignUp ==
  [pc |-> "idle", registrationCode |-> "", validationResult |-> "none",
   assigned_role |-> NoRole]


VARIABLES
  user_roles,          \* table user_roles: set of rows
  inspections,         \* table inspections: sequence of rows, id = position
  inspection_results,  \* table inspection_results: set of rows
  inspection_images,   \* table inspection_images: set of rows
  approval_history,    \* table approval_history: rows in insertion order
  role,                \* AuthContext state `role` of each user's session
  users,               \* Users page state `users` of each user's session
  inspection,          \* InspectionDetail page state `inspection` per session
  approving,           \* handleApproval between its two store requests
  submitting,          \* handleSubmit between its two store requests
  roleChanges,         \* number of role changes performed so far
  toast,               \* title of the toast the step just taken has shown
  specifications,      \* table specifications of the product: set of rows
  form,                \* CreateInspection state `specifications`, `results`
  specChanges,         \* number of specification changes performed so far
  profiles,            \* table profiles: the registered identities
  signingUp,           \* AuthContext.signUp of each identity: its position,
                       \* its registration code and its validation result
  requester,           \* the identities whose requests on the role table,
                       \* sent to the store directly, were served, in order
  products,            \* table products: set of rows
  productOptions,      \* CreateInspection state `products` per session
  selectedProduct,     \* CreateInspection state `selectedProduct`, 0 for ''
  inspectionNumber,    \* handleSubmit's `inspectionNumber` between the call
                       \* of generate_inspection_number and the insert, 0
                       \* outside
  user,                \* AuthContext state `user` of each session: TRUE for
                       \* a signed-in user, FALSE for null
  fetchingUsers,       \* the calls of Users.fetchUsers in flight in each
                       \* session, with the profiles a call has received
  assigning,           \* the calls of assign_role_after_registration sent
                       \* directly, between the two statements of the
                       \* function
  fetchingUserData,    \* the calls of AuthContext.fetchUserData in flight
                       \* in each session, a bag: the position of a call
                       \* and the answer of the store on its way back
  profile,             \* AuthContext state `profile` of each session: TRUE
                       \* for the profile of its user, FALSE for null
  submitted            \* the ids of the specifications the selected product
                       \* had when the session's handleSubmit was last
                       \* called with a form it accepted

vars == <<user_roles, inspections, inspection_results, inspection_images,
          approval_history, role, users, inspection, approving, submitting,
          roleChanges, toast, specifications, form, specChanges, profiles,
          signingUp, requester, products, productOptions, selectedProduct,
          inspectionNumber, user, fetchingUsers, assigning,
          fetchingUserData, profile, submitted>>

InspectionIds == 1..Len(inspections)

\* ---------------------------------------------------------------- the store
has_role(u, r) ==
  \E row \in user_roles : row.user_id = u /\ row.role = r

\* function get_user_role: the role of a role row of u, null without one
get_user_role(u) ==
  IF \A row \in user_roles : row.user_id # u THEN NoRole
  ELSE (CHOOSE row \in user_roles : row.user_id = u).role

\* UPDATE policies on inspections, USING clauses (permissive policies are OR-ed)
inspections_update_using(u, row) ==
  \/ has_role(u, "auditor") /\ row.created_by = u /\ row.status = "rejected"
  \/ has_role(u, "team_leader") /\ row.status = "pending_team_leader"
  \/ has_role(u, "hof_auditor") /\ row.status = "pending_hof_auditor"
  \/ has_role(u, "quality_head") /\ row.status = "pending_quality_head"

\* UPDATE policies on inspections, WITH CHECK clauses on the new row
inspections_update_check(u, row) ==
  \/ has_role(u, "auditor") /\ row.created_by = u
       /\ row.status = "pending_team_leader"
  \/ has_role(u, "team_leader")
       /\ row.status \in {"pending_hof_auditor", "rejected"}
  \/ has_role(u, "hof_auditor")
       /\ row.status \in {"pending_quality_head", "rejected"}
  \/ has_role(u, "quality_head") /\ row.status \in {"approved", "rejected"}

\* the insert policy without its condition on created_by
inspections_insert_check_anyCreator(u, row) == has_role(u, "auditor")

\* INSERT policy on inspections
inspections_insert_check(u, row) ==
  has_role(u, "auditor") /\ row.created_by = u

\* a store in which inspection_number is not declared UNIQUE
inspections_inspection_number_key_off(row) == TRUE

\* inspection_number TEXT UNIQUE NOT NULL: no stored inspection has the
\* number of the new row
inspections_inspection_number_key(row) ==
  \A i \in InspectionIds :
    inspections[i].inspection_number # row.inspection_number

\* function generate_inspection_number: the count of the inspections plus
\* one. The text it returns, 'INS-' || date || '-' || the counter padded to
\* four digits, differs for different counters of the model, which are
\* below 10000 and taken on one day
generate_inspection_number == Len(inspections) + 1

\* inspections has no DELETE policy: row-level security denies every delete
inspections_delete_using(u, row) == FALSE

\* the results policy without its status condition
inspection_results_policy_anyStatus(u, row) ==
  /\ row.inspection_id \in InspectionIds
  /\ inspections[row.inspection_id].created_by = u

\* "Auditors can manage inspection results" FOR ALL: the USING expression,
\* which is also the check on a new row (no WITH CHECK is given)
inspection_results_policy(u, row) ==
  /\ row.inspection_id \in InspectionIds
  /\ inspections[row.inspection_id].created_by = u
  /\ inspections[row.inspection_id].status \in {"pending_team_leader", "rejected"}

\* "Auditors can manage inspection images" FOR ALL
inspection_images_policy(u, row) ==
  /\ row.inspection_id \in InspectionIds
  /\ inspections[row.inspection_id].created_by = u

\* "Approvers can insert approval history" FOR INSERT
approval_history_insert_check(u, row) == row.approver_id = u

\* approval_history has no UPDATE and no DELETE policy
approval_history_update_using(u, row) == FALSE

approval_history_delete_using(u, row) == FALSE

\* "Quality head can manage roles" FOR ALL
user_roles_policy(u) == has_role(u, "quality_head")

\* constraint user_roles_user_id_unique without its condition
user_roles_user_id_unique_off(row) == TRUE

\* constraint user_roles_user_id_unique on a new row
user_roles_user_id_unique(row) ==
  \A x \in user_roles : x.user_id # row.user_id

\* the rows of user_roles a select returns to the caller: the own row
\* ("Users can view own role"), all rows for a quality head
user_roles_select(caller) ==
  {row \in user_roles :
     row.user_id = caller \/ has_role(caller, "quality_head")}

\* the rows of profiles a select returns to the caller ("Users can view all
\* profiles", TO authenticated)
profiles_select(caller) == IF caller = anon THEN {} ELSE profiles

\* fetchUsers, usersWithRoles: every profile received with the role of its
\* row among the role rows received, null without one
usersWithRoles(profilesData, roles) ==
  [t \in Users |->
     IF t \notin profilesData THEN Unlisted
     ELSE IF \A r \in roles : r.user_id # t THEN NoRole
     ELSE (CHOOSE r \in roles : r.user_id = t).role]

\* "Quality head can manage products" FOR ALL
products_policy(u) == has_role(u, "quality_head")

\* foreign key inspections.product_id on a new inspection row
inspections_product_id_fkey(row) ==
  row.product_id \in {p.id : p \in products}

\* a product that no inspection refers to
ReferencedByInspections_never(productId) == FALSE

\* foreign key inspections.product_id on the delete of a product: some
\* inspection refers to the product
ReferencedByInspections(productId) ==
  \E i \in InspectionIds : inspections[i].product_id = productId

\* a specification that no result row refers to
ReferencedByResults_never(specId) == FALSE

\* trigger prevent_specification_deletion, and the foreign key
\* inspection_results.specification_id, on the delete of a specification:
\* some result row refers to the specification
ReferencedByResults(specId) ==
  \E r \in inspection_results : r.specification_id = specId

\* the ids of the active products, as the select of fetchProducts returns
ActiveProducts == {p.id : p \in {q \in products : q.is_active}}

\* the smallest row id of 1..max not used in a table
FreeId(table, max) ==
  CHOOSE k \in 1..max :
    /\ k \notin {r.id : r \in table}
    /\ \A j \in 1..(k - 1) : j \in {r.id : r \in table}

RowWithId(table, k) == CHOOSE r \in table : r.id = k

\* DEFAULT gen_random_uuid() of a new row: an id that no row and no page
\* holds, the smallest such of 1..max
gen_random_uuid(held, max) ==
  CHOOSE k \in (1..max) \ held : \A j \in (1..max) \ held : k <= j

\* ------------------------------------------------------------- the sessions
\* roleStatusMap of canApprove: the status a role reviews
roleStatusMap(r) ==
  CASE r = "auditor" -> "rejected"
    [] r = "team_leader" -> "pending_team_leader"
    [] r = "hof_auditor" -> "pending_hof_auditor"
    [] r = "quality_head" -> "pending_quality_head"

\* InspectionDetail.canApprove on a session's loaded inspection and role
canApprove(insp, r) ==
  IF insp = NoInspection \/ r = NoRole THEN FALSE
  ELSE IF r = "auditor" THEN FALSE
  ELSE insp.status = roleStatusMap(r)

\* InspectionDetail.getNextStatus on the loaded status
getNextStatus(status, action) ==
  IF action = "rejected" THEN "rejected"
  ELSE CASE status = "pending_team_leader" -> "pending_hof_auditor"
         [] status = "pending_hof_auditor" -> "pending_quality_head"
         [] status = "pending_quality_head" -> "approved"
         [] OTHER -> status

\* String.trim() on the comment contents of the model
Trim(c) == IF c = " " THEN "" ELSE c

\* auth.uid() of a request the session of u sends: the requests of a session
\* that has signed out carry no identity
auth_uid(u) == IF user[u] THEN u ELSE anon

\* the specification the product has when the system is taken into use: a
\* functional specification "power" that asks for no remarks
FirstSpecification ==
  [id |-> 1, product_id |-> 1, parameter_name |-> "power",
   specification_type |-> "functional", tolerance_min |-> Null,
   tolerance_max |-> Null, remarks_required |-> FALSE]

\* the state CreateInspection.fetchSpecifications sets for the rows `data`:
\* the specifications and one empty, passing result per specification
Loaded(data) ==
  [specifications |-> data,
   results |->
     [k \in 1..Len(data) |->
        [specification_id |-> data[k].id,
         actual_value |-> "", is_pass |-> TRUE, remarks |-> ""]]]

\* A system in use: the three identities are registered and hold the roles
\* auditor, team_leader and quality_head, every session has loaded its
\* profile and its role, one product with one specification is defined, and
\* the auditor has opened the inspection form and selected the product
Init ==
  /\ user_roles = {[user_id |-> "u1", role |-> "auditor"],
                    [user_id |-> "u2", role |-> "team_leader"],
                    [user_id |-> "u3", role |-> "quality_head"]}
  /\ inspections = << >>
  /\ inspection_results = {}
  /\ inspection_images = {}
  /\ approval_history = << >>
  /\ role = [u \in Users |->
       CASE u = "u1" -> "auditor"
         [] u = "u2" -> "team_leader"
         [] OTHER -> "quality_head"]
  /\ users = [u \in Users |-> [t \in Users |-> Unlisted]]
  /\ inspection = [u \in Users |-> NoInspection]
  /\ approving = [u \in Users |-> "none"]
  /\ submitting = [u \in Users |-> 0]
  /\ roleChanges = 0
  /\ toast = "none"
  /\ specifications = {FirstSpecification}
  /\ form = [u \in Users |->
       IF u = "u1" THEN Loaded(<<FirstSpecification>>) ELSE NoForm]
  /\ specChanges = 0
  /\ profiles = Users
  /\ signingUp = [u \in Users |-> NoSignUp]
  /\ requester = << >>
  /\ products = {[id |-> 1, is_active |-> TRUE]}
  /\ productOptions = [u \in Users |-> IF u = "u1" THEN {1} ELSE {}]
  /\ selectedProduct = [u \in Users |-> IF u = "u1" THEN 1 ELSE 0]
  /\ inspectionNumber = [u \in Users |-> 0]
  /\ user = [u \in Users |-> TRUE]
  /\ fetchingUsers = [u \in Users |-> {}]
  /\ assigning = [u \in Users |-> NoCall]
  /\ fetchingUserData = [u \in Users |-> EmptyBag]
  /\ profile = [u \in Users |-> TRUE]
  /\ submitted = [u \in Users |-> {}]

\* The system in use after its first inspection has been submitted: the
\* auditor has filled in the form and handleSubmit has stored the inspection
\* and its result row
InitPending ==
  /\ user_roles = {[user_id |-> "u1", role |-> "auditor"],
                    [user_id |-> "u2", role |-> "team_leader"],
                    [user_id |-> "u3", role |-> "quality_head"]}
  /\ inspections =
       <<[inspection_number |-> 1, status |-> "pending_team_leader",
          created_by |-> "u1", remarks |-> "r1", product_id |-> 1]>>
  /\ inspection_results =
       {[id |-> MaxResults + 1, inspection_id |-> 1, specification_id |-> 1,
         actual_value |-> "Pass", is_pass |-> TRUE, remarks |-> NullText]}
  /\ inspection_images = {}
  /\ approval_history = << >>
  /\ role = [u \in Users |->
       CASE u = "u1" -> "auditor"
         [] u = "u2" -> "team_leader"
         [] OTHER -> "quality_head"]
  /\ users = [u \in Users |-> [t \in Users |-> Unlisted]]
  /\ inspection = [u \in Users |-> NoInspection]
  /\ approving = [u \in Users |-> "none"]
  /\ submitting = [u \in Users |-> 0]
  /\ roleChanges = 0
  /\ toast = "Success"
  /\ specifications = {FirstSpecification}
  /\ form = [u \in Users |-> NoForm]
  /\ specChanges = 0
  /\ profiles = Users
  /\ signingUp = [u \in Users |-> NoSignUp]
  /\ requester = << >>
  /\ products = {[id |-> 1, is_active |-> TRUE]}
  /\ productOptions = [u \in Users |-> IF u = "u1" THEN {1} ELSE {}]
  /\ selectedProduct = [u \in Users |-> IF u = "u1" THEN 1 ELSE 0]
  /\ inspectionNumber = [u \in Users |-> 0]
  /\ user = [u \in Users |-> TRUE]
  /\ fetchingUsers = [u \in Users |-> {}]
  /\ assigning = [u \in Users |-> NoCall]
  /\ fetchingUserData = [u \in Users |-> EmptyBag]
  /\ profile = [u \in Users |-> TRUE]
  /\ submitted = [u \in Users |-> IF u = "u1" THEN {1} ELSE {}]

\* The system in use after its first inspection has passed the first stage:
\* the auditor has submitted the inspection with its result row, the team
\* leader has approved it on the review page, the quality head has then made
\* the team leader a HOF auditor on the Users page, and the session of the
\* new HOF auditor has loaded its role again
InitReviewed ==
  /\ user_roles = {[user_id |-> "u1", role |-> "auditor"],
                    [user_id |-> "u2", role |-> "hof_auditor"],
                    [user_id |-> "u3", role |-> "quality_head"]}
  /\ inspections =
       <<[inspection_number |-> 1, status |-> "pending_hof_auditor",
          created_by |-> "u1", remarks |-> "r1", product_id |-> 1]>>
  /\ inspection_results =
       {[id |-> MaxResults + 1, inspection_id |-> 1, specification_id |-> 1,
         actual_value |-> "Pass", is_pass |-> TRUE, remarks |-> NullText]}
  /\ inspection_images = {}
  /\ approval_history =
       <<[inspection_id |-> 1, approver_id |-> "u2",
          approver_role |-> "team_leader", action |-> "approved",
          previous_status |-> "pending_team_leader",
          new_status |-> "pending_hof_auditor", comments |-> "ok",
          created_at |-> 1]>>
  /\ role = [u \in Users |->
       CASE u = "u1" -> "auditor"
         [] u = "u2" -> "hof_auditor"
         [] OTHER -> "quality_head"]
  /\ users = [u \in Users |->
       IF u = "u3"
       THEN [t \in Users |->
               CASE t = "u1" -> "auditor"
                 [] t = "u2" -> "hof_auditor"
                 [] OTHER -> "quality_head"]
       ELSE [t \in Users |-> Unlisted]]
  /\ inspection = [u \in Users |-> NoInspection]
  /\ approving = [u \in Users |-> "none"]
  /\ submitting = [u \in Users |-> 0]
  /\ roleChanges = 1
  /\ toast = "none"
  /\ specifications = {FirstSpecification}
  /\ form = [u \in Users |-> NoForm]
  /\ specChanges = 0
  /\ profiles = Users
  /\ signingUp = [u \in Users |-> NoSignUp]
  /\ requester = << >>
  /\ products = {[id |-> 1, is_active |-> TRUE]}
  /\ productOptions = [u \in Users |-> IF u = "u1" THEN {1} ELSE {}]
  /\ selectedProduct = [u \in Users |-> IF u = "u1" THEN 1 ELSE 0]
  /\ inspectionNumber = [u \in Users |-> 0]
  /\ user = [u \in Users |-> TRUE]
  /\ fetchingUsers = [u \in Users |-> {}]
  /\ assigning = [u \in Users |-> NoCall]
  /\ fetchingUserData = [u \in Users |-> EmptyBag]
  /\ profile = [u \in Users |-> TRUE]
  /\ submitted = [u \in Users |-> IF u = "u1" THEN {1} ELSE {}]

\* The system in use with two auditors at the form: the quality head has made
\* the team leader an auditor on the Users page, the session of the new
\* auditor has loaded its role again and has opened the form on product 1
InitAuditors ==
  /\ user_roles = {[user_id |-> "u1", role |-> "auditor"],
                    [user_id |-> "u2", role |-> "auditor"],
                    [user_id |-> "u3", role |-> "quality_head"]}
  /\ inspections = << >>
  /\ inspection_results = {}
  /\ inspection_images = {}
  /\ approval_history = << >>
  /\ role = [u \in Users |->
       IF u = "u3" THEN "quality_head" ELSE "auditor"]
  /\ users = [u \in Users |->
       IF u = "u3"
       THEN [t \in Users |->
               IF t = "u3" THEN "quality_head" ELSE "auditor"]
       ELSE [t \in Users |-> Unlisted]]
  /\ inspection = [u \in Users |-> NoInspection]
  /\ approving = [u \in Users |-> "none"]
  /\ submitting = [u \in Users |-> 0]
  /\ roleChanges = 1
  /\ toast = "none"
  /\ specifications = {FirstSpecification}
  /\ form = [u \in Users |->
       IF u = "u3" THEN NoForm ELSE Loaded(<<FirstSpecification>>)]
  /\ specChanges = 0
  /\ profiles = Users
  /\ signingUp = [u \in Users |-> NoSignUp]
  /\ requester = << >>
  /\ products = {[id |-> 1, is_active |-> TRUE]}
  /\ productOptions = [u \in Users |-> IF u = "u3" THEN {} ELSE {1}]
  /\ selectedProduct = [u \in Users |-> IF u = "u3" THEN 0 ELSE 1]
  /\ inspectionNumber = [u \in Users |-> 0]
  /\ user = [u \in Users |-> TRUE]
  /\ fetchingUsers = [u \in Users |-> {}]
  /\ assigning = [u \in Users |-> NoCall]
  /\ fetchingUserData = [u \in Users |-> EmptyBag]
  /\ profile = [u \in Users |-> TRUE]
  /\ submitted = [u \in Users |-> {}]

\* The system in use with its quality head and its auditor, before the third
\* identity has registered
InitJoining ==
  /\ user_roles = {[user_id |-> "u1", role |-> "auditor"],
                    [user_id |-> "u3", role |-> "quality_head"]}
  /\ inspections = << >>
  /\ inspection_results = {}
  /\ inspection_images = {}
  /\ approval_history = << >>
  /\ role = [u \in Users |->
       CASE u = "u1" -> "auditor"
         [] u = "u2" -> NoRole
         [] OTHER -> "quality_head"]
  /\ users = [u \in Users |-> [t \in Users |-> Unlisted]]
  /\ inspection = [u \in Users |-> NoInspection]
  /\ approving = [u \in Users |-> "none"]
  /\ submitting = [u \in Users |-> 0]
  /\ roleChanges = 0
  /\ toast = "none"
  /\ specifications = {FirstSpecification}
  /\ form = [u \in Users |->
       IF u = "u1" THEN Loaded(<<FirstSpecification>>) ELSE NoForm]
  /\ specChanges = 0
  /\ profiles = {"u1", "u3"}
  /\ signingUp = [u \in Users |-> NoSignUp]
  /\ requester = << >>
  /\ products = {[id |-> 1, is_active |-> TRUE]}
  /\ productOptions = [u \in Users |-> IF u = "u1" THEN {1} ELSE {}]
  /\ selectedProduct = [u \in Users |-> IF u = "u1" THEN 1 ELSE 0]
  /\ inspectionNumber = [u \in Users |-> 0]
  /\ user = [u \in Users |-> u # "u2"]
  /\ fetchingUsers = [u \in Users |-> {}]
  /\ assigning = [u \in Users |-> NoCall]
  /\ fetchingUserData = [u \in Users |-> EmptyBag]
  /\ profile = [u \in Users |-> u # "u2"]
  /\ submitted = [u \in Users |-> {}]

\* the calls of fetchUserData in flight, over all sessions
Fetching ==
  LET count[S \in SUBSET Users] ==
        IF S = {} THEN 0
        ELSE LET u == CHOOSE x \in S : TRUE
             IN  BagCardinality(fetchingUserData[u]) + count[S \ {u}]
  IN  count[Users]

\* the call of fetchUserData that has sent its first request, the select of
\* the profile of userId, which the store has served to the caller
ProfileRequested(u) ==
  [pc |-> "profile", profileData |-> u \in profiles_select(auth_uid(u)),
   roleData |-> NoRole]

\* AuthContext.signIn with the password of a registered identity, and the
\* listener of onAuthStateChange on the session it brings: `user` is set and
\* fetchUserData is called, which sends the select of the profile
signIn(u) ==
  /\ ~user[u]
  /\ u \in profiles
  /\ Fetching < MaxFetches
  /\ user' = [user EXCEPT ![u] = TRUE]
  /\ fetchingUserData' =
       [fetchingUserData EXCEPT
          ![u] = @ (+) SetToBag({[pc |-> "profile", profileData |-> TRUE,
                                  roleData |-> NoRole]})]
  /\ toast' = "none"
  /\ UNCHANGED <<user_roles, inspections, inspection_results,
                 inspection_images, approval_history, role, users, inspection,
                 approving, submitting, roleChanges, specifications, form,
                 specChanges, profiles, signingUp, requester, products,
                 productOptions, selectedProduct, inspectionNumber,
                 fetchingUsers, assigning, profile, submitted>>

\* AuthContext.signOut, and the listener of onAuthStateChange on a session
\* that has ended: `user`, `profile` and `role` are set to null. The layout
\* renders no page for a session without a user; the calls in flight go on
signOut(u) ==
  /\ user[u]
  /\ user' = [user EXCEPT ![u] = FALSE]
  /\ profile' = [profile EXCEPT ![u] = FALSE]
  /\ role' = [role EXCEPT ![u] = NoRole]
  /\ toast' = "none"
  /\ UNCHANGED <<user_roles, inspections, inspection_results,
                 inspection_images, approval_history, users, inspection,
                 approving, submitting, roleChanges, specifications, form,
                 specChanges, profiles, signingUp, requester, products,
                 productOptions, selectedProduct, inspectionNumber,
                 fetchingUsers, assigning, fetchingUserData, submitted>>

\* DashboardLayout: the pages are rendered for a session that has a user and
\* a role; a session without a user is sent to the sign-in page
DashboardLayout(u) == user[u] /\ role[u] # NoRole

\* AuthContext.fetchUserData, called for a session that has a user (by the
\* listener of onAuthStateChange on a later event of the session, or after
\* getSession when the application is loaded again), up to its first
\* request, the select of the profile. Calls overlap: nothing in the code
\* waits for a call in flight
fetchUserData(u) ==
  /\ user[u]
  /\ Fetching < MaxFetches
  /\ fetchingUserData' =
       [fetchingUserData EXCEPT ![u] = @ (+) SetToBag({ProfileRequested(u)})]
  /\ toast' = "none"
  /\ UNCHANGED <<user_roles, inspections, inspection_results,
                 inspection_images, approval_history, role, users, inspection,
                 approving, submitting, roleChanges, specifications, form,
                 specChanges, profiles, signingUp, requester, products,
                 productOptions, selectedProduct, inspectionNumber, user,
                 fetchingUsers, assigning, profile, submitted>>

\* the answer maybeSingle() gives for the role rows the store returns: the
\* role of the one row, null for none and for several
maybeSingle(rows) ==
  IF Cardinality(rows) = 1 THEN (CHOOSE row \in rows : TRUE).role ELSE NoRole

\* AuthContext.fetchUserData, the answer to its profile select and its
\* second request: setProfile when a profile has come, and the store serves
\* the select of the role row of userId under the identity the session has
\* by then
fetchUserDataRole(u) ==
  /\ \E call \in BagToSet(fetchingUserData[u]) :
       /\ call.pc = "profile"
       /\ profile' = [profile EXCEPT ![u] = IF call.profileData THEN TRUE
                                            ELSE @]
       /\ fetchingUserData' =
            [fetchingUserData EXCEPT
               ![u] = (@ (-) SetToBag({call})) (+)
                      SetToBag({[pc |-> "role", profileData |-> call.profileData,
                                 roleData |->
                                   maybeSingle(
                                     {row \in user_roles_select(auth_uid(u)) :
                                        row.user_id = u})]})]
  /\ toast' = "none"
  /\ UNCHANGED <<user_roles, inspections, inspection_results,
                 inspection_images, approval_history, role, users,
                 inspection, approving, submitting, roleChanges,
                 specifications, form, specChanges, profiles, signingUp,
                 requester, products, productOptions, selectedProduct,
                 inspectionNumber, user, fetchingUsers, assigning,
                 submitted>>

\* AuthContext.fetchUserData, the answer to its role select: setRole when a
\* role row has come, whatever has become of the session since
fetchUserDataSetRole(u) ==
  /\ \E call \in BagToSet(fetchingUserData[u]) :
       /\ call.pc = "role"
       /\ role' = [role EXCEPT ![u] = IF call.roleData # NoRole
                                      THEN call.roleData
                                      ELSE @]
       /\ fetchingUserData' =
            [fetchingUserData EXCEPT ![u] = @ (-) SetToBag({call})]
  /\ toast' = "none"
  /\ UNCHANGED <<user_roles, inspections, inspection_results,
                 inspection_images, approval_history, users, inspection,
                 approving, submitting, roleChanges, specifications, form,
                 specChanges, profiles, signingUp, requester, products,
                 productOptions, selectedProduct, inspectionNumber, user,
                 fetchingUsers, assigning, profile, submitted>>

\* the calls of AuthContext.fetchUserData, step by step
UserData ==
  \/ \E u \in Users : fetchUserData(u)
  \/ \E u \in Users : fetchUserDataRole(u)
  \/ \E u \in Users : fetchUserDataSetRole(u)

\* InspectionDetail.fetchInspectionData: the layout renders the page for a
\* session with a role; the load of the inspection row is kept, whatever its
\* status. A handleApproval in flight holds the inspection it was called on,
\* which the page state stands for until the call ends
fetchInspectionData(u, i) ==
  /\ DashboardLayout(u)
  /\ approving[u] = "none"
  /\ i \in InspectionIds
  /\ inspection[u] # [id |-> i, status |-> inspections[i].status]
  /\ inspection' = [inspection EXCEPT
       ![u] = [id |-> i, status |-> inspections[i].status]]
  /\ UNCHANGED <<user_roles, inspections, inspection_results,
                 inspection_images, approval_history, role, users,
                 approving, submitting, roleChanges>>
  /\ toast' = "none"
  /\ UNCHANGED <<specifications, form, specChanges>>
  /\ UNCHANGED <<profiles, signingUp, requester, products, productOptions,
                 selectedProduct, inspectionNumber, user, fetchingUsers,
                 assigning, fetchingUserData, profile, submitted>>

\* created_at TIMESTAMPTZ NOT NULL DEFAULT now() of approval_history: the
\* time of the insert, later than the time of every insert before it
now == Len(approval_history) + 1

\* the approval_history row handleApproval inserts; created_at is left to its
\* default
ApprovalRow(u, action, comment) ==
  [inspection_id |-> inspection[u].id,
   approver_id |-> u,
   approver_role |-> role[u],
   action |-> action,
   previous_status |-> inspection[u].status,
   new_status |-> getNextStatus(inspection[u].status, action),
   comments |-> Trim(comment),
   created_at |-> now]

\* InspectionDetail.handleApproval up to its first store request. The buttons
\* are rendered when canApprove() and are disabled while the comment is blank; a
\* call without a profile ends with the toast 'Comment Required'; otherwise
\* the history row is inserted (refused for a missing inspection by the
\* foreign key, or by the insert policy)
handleApprovalInsert(u, action, comment) ==
  /\ DashboardLayout(u)
  /\ approving[u] = "none"
  /\ canApprove(inspection[u], role[u])
  /\ Trim(comment) # ""
  /\ IF inspection[u] = NoInspection \/ ~profile[u] \/ role[u] = NoRole
        \/ Trim(comment) = ""
     THEN /\ toast' = "Comment Required"
          /\ UNCHANGED <<approval_history, approving>>
     ELSE /\ Len(approval_history) < MaxHistory
          /\ IF /\ inspection[u].id \in InspectionIds
                /\ approval_history_insert_check(
                     auth_uid(u), ApprovalRow(u, action, comment))
             THEN /\ approval_history' =
                       Append(approval_history, ApprovalRow(u, action, comment))
                  /\ approving' = [approving EXCEPT ![u] = action]
                  /\ toast' = "none"
             ELSE /\ toast' = "Error"
                  /\ UNCHANGED <<approval_history, approving>>
  /\ UNCHANGED <<user_roles, inspections, inspection_results,
                 inspection_images, role, users, inspection, submitting,
                 roleChanges>>
  /\ UNCHANGED <<specifications, form, specChanges>>
  /\ UNCHANGED <<profiles, signingUp, requester, products, productOptions,
                 selectedProduct, inspectionNumber, user, fetchingUsers,
                 assigning, fetchingUserData, profile, submitted>>

\* an update of handleApproval without its filter
eq_id_none(u, i) == TRUE

\* handleApproval, the filter of its update: .eq('id', inspection.id)
eq_id(u, i) == i = inspection[u].id

\* InspectionDetail.handleApproval, second store request: the status update.
\* A row the USING clauses hide is not updated and no error is returned; a
\* new row the WITH CHECK clauses refuse is an error; success navigates away
handleApprovalUpdate(u) ==
  /\ approving[u] # "none"
  /\ LET newStatus == getNextStatus(inspection[u].status, approving[u])
         matched ==
           {i \in InspectionIds :
              /\ eq_id(u, i)
              /\ inspections_update_using(auth_uid(u), inspections[i])}
         newRow(i) == [inspections[i] EXCEPT !.status = newStatus]
     IN  IF \E i \in matched :
              ~inspections_update_check(auth_uid(u), newRow(i))
         THEN /\ UNCHANGED <<inspections, inspection>>
              /\ toast' = "Error"
         ELSE /\ inspections' =
                   [i \in DOMAIN inspections |->
                      IF i \in matched THEN newRow(i) ELSE inspections[i]]
              /\ toast' = IF approving[u] = "approved" THEN "Approved"
                           ELSE "Rejected"
              /\ inspection' = [inspection EXCEPT ![u] = NoInspection]
  /\ approving' = [approving EXCEPT ![u] = "none"]
  /\ UNCHANGED <<user_roles, inspection_results, inspection_images,
                 approval_history, role, users, submitting, roleChanges>>
  /\ UNCHANGED <<specifications, form, specChanges>>
  /\ UNCHANGED <<profiles, signingUp, requester, products, productOptions,
                 selectedProduct, inspectionNumber, user, fetchingUsers,
                 assigning, fetchingUserData, profile, submitted>>

\* Users.fetchUsers up to its first request, the select of the profiles: a
\* call on mount (the layout renders the page for a session with a role, and
\* the page leaves when that role is not quality_head) or the call that a
\* handleRoleChange has made. A select that fails ends the call
fetchUsers(u) ==
  /\ \/ /\ DashboardLayout(u)
        /\ role[u] = "quality_head"
        /\ fetchingUsers[u] = {}
     \/ FetchCalled \in fetchingUsers[u]
  /\ \E failed \in BOOLEAN :
       IF failed
       THEN /\ fetchingUsers' =
                 [fetchingUsers EXCEPT ![u] = @ \ {FetchCalled}]
            /\ toast' = "Error"
       ELSE /\ fetchingUsers' =
                 [fetchingUsers EXCEPT ![u] =
                    (@ \ {FetchCalled}) \cup
                      {[pc |-> "profiles",
                        profiles |-> profiles_select(auth_uid(u))]}]
            /\ toast' = "none"
  /\ UNCHANGED <<user_roles, inspections, inspection_results,
                 inspection_images, approval_history, role, users, inspection,
                 approving, submitting, roleChanges, specifications, form,
                 specChanges, profiles, signingUp, requester, products,
                 productOptions, selectedProduct, inspectionNumber, user,
                 assigning, fetchingUserData, profile, submitted>>

\* Users.fetchUsers, its second request: the select of the role rows, and
\* setUsers with the combined list. A select that fails leaves the list
fetchUsersRoles(u) ==
  /\ \E call \in fetchingUsers[u] :
       /\ call.pc = "profiles"
       /\ fetchingUsers' = [fetchingUsers EXCEPT ![u] = @ \ {call}]
       /\ \E failed \in BOOLEAN :
            IF failed
            THEN /\ toast' = "Error"
                 /\ UNCHANGED users
            ELSE /\ users' =
                      [users EXCEPT ![u] =
                         usersWithRoles(call.profiles,
                                        user_roles_select(auth_uid(u)))]
                 /\ toast' = "none"
  /\ UNCHANGED <<user_roles, inspections, inspection_results,
                 inspection_images, approval_history, role, inspection,
                 approving, submitting, roleChanges, specifications, form,
                 specChanges, profiles, signingUp, requester, products,
                 productOptions, selectedProduct, inspectionNumber, user,
                 assigning, fetchingUserData, profile, submitted>>

\* Users.handleRoleChange: its one request on the role table, the toast, and
\* the call of fetchUsers it makes without awaiting it. The select of a row
\* is offered for a listed user whose id is not the id of the session's
\* profile (without a loaded profile the own row is offered too) and whose
\* listed role is not quality_head, with the items none, auditor,
\* team_leader, hof_auditor. A delete or an update touches the rows the
\* policy shows and reports no error; an insert is refused by the policy or
\* by the unique constraint
handleRoleChange(u, userId, newRole) ==
  /\ DashboardLayout(u)
  /\ role[u] = "quality_head"
  /\ ~(profile[u] /\ userId = u)
  /\ users[u][userId] \notin {"quality_head", Unlisted}
  /\ newRole \in {NoRole, "auditor", "team_leader", "hof_auditor"}
  /\ newRole # users[u][userId]
  /\ roleChanges < MaxRoleChanges
  /\ roleChanges' = roleChanges + 1
  /\ UNCHANGED <<profiles, signingUp, requester, products, productOptions,
                 selectedProduct, inspectionNumber, user, assigning,
                 fetchingUserData, profile, submitted>>
  /\ LET existingRole == users[u][userId]
         rows == {row \in user_roles : row.user_id = userId}
         inserted == [user_id |-> userId, role |-> newRole]
         failed == /\ newRole # NoRole
                   /\ existingRole = NoRole
                   /\ ~(user_roles_policy(u)
                          /\ user_roles_user_id_unique(inserted))
         written ==
           IF newRole = NoRole
           THEN IF user_roles_policy(u) THEN user_roles \ rows
                ELSE user_roles
           ELSE IF existingRole # NoRole
           THEN IF user_roles_policy(u)
                THEN (user_roles \ rows) \cup
                       {[row EXCEPT !.role = newRole] : row \in rows}
                ELSE user_roles
           ELSE IF failed THEN user_roles
           ELSE user_roles \cup {inserted}
     IN  /\ user_roles' = written
         /\ toast' = IF failed THEN "Error" ELSE "Role Updated"
         /\ fetchingUsers' =
              IF failed THEN fetchingUsers
              ELSE [fetchingUsers EXCEPT ![u] = @ \cup {FetchCalled}]
  /\ UNCHANGED <<inspections, inspection_results, inspection_images,
                 approval_history, role, users, inspection, approving,
                 submitting>>
  /\ UNCHANGED <<specifications, form, specChanges>>

\* ------------------------------------- the inspection form, specifications
\* "Quality head can manage specifications" FOR ALL
specifications_policy(u) == has_role(u, "quality_head")

\* the position of a value in the declaration of the enum
\* specification_type, which is its place in an ORDER BY
specification_type_order(t) ==
  CASE t = "dimensional" -> 1
    [] t = "visual" -> 2
    [] t = "functional" -> 3
    [] t = "compliance" -> 4

\* the place of a parameter name of the model in an ORDER BY on the text
parameter_name_order(name) ==
  CASE name = "length" -> 1
    [] name = "power" -> 2
    [] name = "switch" -> 3

\* ORDER BY specification_type, parameter_name: row a is not after row b
OrderedBefore(a, b) ==
  \/ specification_type_order(a.specification_type)
       < specification_type_order(b.specification_type)
  \/ /\ a.specification_type = b.specification_type
     /\ parameter_name_order(a.parameter_name)
          <= parameter_name_order(b.parameter_name)

\* the specification rows of a product in the orders the select of
\* fetchSpecifications can return them: by specification_type, then by
\* parameter_name; rows equal in both come in any order
SpecificationsInOrder(productId) ==
  LET rows == {sp \in specifications : sp.product_id = productId}
  IN  {sq \in [1..Cardinality(rows) -> rows] :
         /\ \A a, b \in 1..Cardinality(rows) : a # b => sq[a] # sq[b]
         /\ \A a, b \in 1..Cardinality(rows) :
              a < b => OrderedBefore(sq[a], sq[b])}

\* parseFloat on the texts of the model
parseFloat(value) ==
  CASE value = "10.5" -> <<105>>
    [] value = "12" -> <<120>>
    [] OTHER -> NaN

\* result rows whose insert is still owed by a handleSubmit in flight
Owed == Cardinality({u \in Users : submitting[u] # 0})

\* the CreateInspection page is mounted for u and is not submitting; it is
\* used while an inspection can still be created
FormOpen(u) ==
  /\ DashboardLayout(u)
  /\ role[u] = "auditor"
  /\ submitting[u] = 0
  /\ inspectionNumber[u] = 0
  /\ Len(inspections) < MaxInspections

\* CreateInspection.fetchSpecifications: loads the specifications of the
\* selected product and starts one empty, passing result per specification
fetchSpecifications(u) ==
  /\ FormOpen(u)
  /\ \E data \in SpecificationsInOrder(selectedProduct[u]) :
       /\ form[u] # Loaded(data)
       /\ form' = [form EXCEPT ![u] = Loaded(data)]
  /\ UNCHANGED <<user_roles, inspections, inspection_results,
                 inspection_images, approval_history, role, users,
                 inspection, approving, submitting, roleChanges,
                 specifications, specChanges>>
  /\ toast' = "none"
  /\ UNCHANGED <<profiles, signingUp, requester, products, productOptions,
                 selectedProduct, inspectionNumber, user, fetchingUsers,
                 assigning, fetchingUserData, profile, submitted>>

\* CreateInspection.handleResultChange: the Result input is rendered for
\* dimensional specifications, the Remarks input for all
handleResultChange(u, index, field, value) ==
  /\ FormOpen(u)
  /\ index \in 1..Len(form[u].results)
  /\ field \in {"actual_value", "remarks"}
  /\ LET spec == form[u].specifications[index]
         old == form[u].results[index]
         updated == IF field = "actual_value"
                    THEN [old EXCEPT !.actual_value = value]
                    ELSE [old EXCEPT !.remarks = value]
         numValue == parseFloat(value)
         calculated ==
           IF /\ field = "actual_value"
              /\ spec.specification_type = "dimensional"
              /\ spec.tolerance_min # Null
              /\ spec.tolerance_max # Null
              /\ numValue # NaN
           THEN [updated EXCEPT !.is_pass =
                   /\ numValue[1] >= spec.tolerance_min[1]
                   /\ numValue[1] <= spec.tolerance_max[1]]
           ELSE updated
     IN  /\ field = "actual_value" =>
              spec.specification_type = "dimensional" /\ value \in FormValues
         /\ field = "remarks" => value \in FormRemarks
         /\ calculated # old
         /\ form' = [form EXCEPT ![u].results[index] = calculated]
  /\ UNCHANGED <<user_roles, inspections, inspection_results,
                 inspection_images, approval_history, role, users,
                 inspection, approving, submitting, roleChanges,
                 specifications, specChanges>>
  /\ toast' = "none"
  /\ UNCHANGED <<profiles, signingUp, requester, products, productOptions,
                 selectedProduct, inspectionNumber, user, fetchingUsers,
                 assigning, fetchingUserData, profile, submitted>>

\* CreateInspection.togglePassFail: the status button is rendered for every
\* specification type
togglePassFail(u, index) ==
  /\ FormOpen(u)
  /\ index \in 1..Len(form[u].results)
  /\ LET spec == form[u].specifications[index]
         old == form[u].results[index]
         toggled == [old EXCEPT !.is_pass = ~old.is_pass]
         updated ==
           IF spec.specification_type # "dimensional"
           THEN [toggled EXCEPT !.actual_value =
                   IF spec.specification_type = "compliance"
                   THEN (IF ~toggled.is_pass THEN "No" ELSE "Yes")
                   ELSE (IF ~toggled.is_pass THEN "Fail" ELSE "Pass")]
           ELSE toggled
     IN  form' = [form EXCEPT ![u].results[index] = updated]
  /\ UNCHANGED <<user_roles, inspections, inspection_results,
                 inspection_images, approval_history, role, users,
                 inspection, approving, submitting, roleChanges,
                 specifications, specChanges>>
  /\ toast' = "none"
  /\ UNCHANGED <<profiles, signingUp, requester, products, productOptions,
                 selectedProduct, inspectionNumber, user, fetchingUsers,
                 assigning, fetchingUserData, profile, submitted>>

\* handleSubmit: some dimensional specification has a blank value
missingValues(f) ==
  \E index \in 1..Len(f.results) :
    /\ f.specifications[index].specification_type = "dimensional"
    /\ Trim(f.results[index].actual_value) = ""

\* handleSubmit: some specification with required remarks has a blank remark
missingRemarks(f) ==
  \E index \in 1..Len(f.results) :
    /\ f.specifications[index].remarks_required
    /\ Trim(f.results[index].remarks) = ""

\* CreateInspection.handleSubmit up to the call of
\* generate_inspection_number. The layout renders the page for a session with
\* a role, and the page leaves when that role is not auditor; the button is
\* disabled without a selected product and without loaded specifications. A
\* call without a profile and a form that fails validation end the call
handleSubmit(u) ==
  /\ FormOpen(u)
  /\ selectedProduct[u] # 0
  /\ Len(form[u].specifications) > 0
  /\ IF \/ selectedProduct[u] = 0
        \/ ~profile[u]
        \/ missingValues(form[u])
        \/ missingRemarks(form[u])
     THEN /\ toast' = "Error"
          /\ UNCHANGED <<inspectionNumber, submitted>>
     ELSE /\ Cardinality(inspection_results) + Owed < MaxResults
          /\ inspectionNumber' =
               [inspectionNumber EXCEPT ![u] = generate_inspection_number]
          /\ submitted' =
               [submitted EXCEPT ![u] =
                  {sp.id : sp \in {x \in specifications :
                                     x.product_id = selectedProduct[u]}}]
          /\ toast' = "none"
  /\ UNCHANGED <<user_roles, inspections, inspection_results,
                 inspection_images, approval_history, role, users, inspection,
                 approving, submitting, roleChanges, specifications, form,
                 specChanges, profiles, signingUp, requester, products,
                 productOptions, selectedProduct, user, fetchingUsers,
                 assigning, fetchingUserData, profile>>

\* CreateInspection.handleSubmit, the insert of the inspection row with the
\* number obtained: refused by the policy, by the foreign key on product_id
\* or by the uniqueness of the number, which ends the call
handleSubmitInspection(u, remarks) ==
  /\ inspectionNumber[u] # 0
  /\ LET row == [inspection_number |-> inspectionNumber[u],
                 status |-> "pending_team_leader", created_by |-> u,
                 remarks |-> remarks, product_id |-> selectedProduct[u]]
     IN  IF /\ inspections_insert_check(auth_uid(u), row)
            /\ inspections_product_id_fkey(row)
            /\ inspections_inspection_number_key(row)
         THEN /\ inspections' = Append(inspections, row)
              /\ submitting' = [submitting EXCEPT ![u] = Len(inspections) + 1]
              /\ toast' = "none"
         ELSE /\ toast' = "Error"
              /\ UNCHANGED <<inspections, submitting>>
  /\ inspectionNumber' = [inspectionNumber EXCEPT ![u] = 0]
  /\ UNCHANGED <<user_roles, inspection_results, inspection_images,
                 approval_history, role, users, inspection, approving,
                 roleChanges>>
  /\ UNCHANGED <<specifications, form, specChanges>>
  /\ UNCHANGED <<profiles, signingUp, requester, products, productOptions,
                 selectedProduct, user, fetchingUsers, assigning,
                 fetchingUserData, profile, submitted>>

\* foreign key inspection_results.specification_id on a new row
inspection_results_specification_id_fkey(row) ==
  row.specification_id \in {sp.id : sp \in specifications}

\* handleSubmit: resultsToInsert, the rows built from the form for the
\* inspection just inserted, with ids not in use
resultsToInsert(u) ==
  LET base == Cardinality(inspection_results) + MaxResults
  IN  {[id |-> base + index,
        inspection_id |-> submitting[u],
        specification_id |-> form[u].results[index].specification_id,
        actual_value |->
          LET spec == form[u].specifications[index]
              r == form[u].results[index]
          IN  IF spec.specification_type # "dimensional"
                 /\ r.actual_value = ""
              THEN IF spec.specification_type = "compliance"
                   THEN (IF r.is_pass THEN "Yes" ELSE "No")
                   ELSE (IF r.is_pass THEN "Pass" ELSE "Fail")
              ELSE r.actual_value,
        is_pass |-> form[u].results[index].is_pass,
        remarks |-> IF form[u].results[index].remarks = "" THEN NullText
                    ELSE form[u].results[index].remarks] :
       index \in 1..Len(form[u].results)}

\* CreateInspection.handleSubmit on the form of the page, the insert of the
\* result rows in one statement: refused as a whole by the policy or by the
\* foreign key on specification_id; success leaves the page
handleSubmitResultRows(u) ==
  /\ submitting[u] # 0
  /\ Len(form[u].specifications) > 0
  /\ IF \A row \in resultsToInsert(u) :
          /\ inspection_results_policy(auth_uid(u), row)
          /\ inspection_results_specification_id_fkey(row)
     THEN /\ inspection_results' = inspection_results \cup resultsToInsert(u)
          /\ form' = [form EXCEPT ![u] = NoForm]
          /\ toast' = "Success"
     ELSE /\ toast' = "Error"
          /\ UNCHANGED <<inspection_results, form>>
  /\ submitting' = [submitting EXCEPT ![u] = 0]
  /\ UNCHANGED <<user_roles, inspections, inspection_images,
                 approval_history, role, users, inspection, approving,
                 roleChanges, specifications, specChanges>>
  /\ UNCHANGED <<profiles, signingUp, requester, products, productOptions,
                 selectedProduct, inspectionNumber, user, fetchingUsers,
                 assigning, fetchingUserData, profile, submitted>>

\* the specification ids that a row of the store or a form of a page holds
HeldSpecificationIds ==
  {sp.id : sp \in specifications}
    \cup {r.specification_id : r \in inspection_results}
    \cup UNION {{form[u].specifications[k].id :
                   k \in DOMAIN form[u].specifications} : u \in Users}

\* ProductSpecifications.handleSubmit on the page of a product: saves the
\* dialog as a new row
\* (editing = 0) or over the row being edited; the page is rendered for a
\* session whose role is quality_head. A row the policy hides is not updated
\* and no error is returned
handleSubmitSpecification(u, productId, editing, specData) ==
  /\ DashboardLayout(u)
  /\ role[u] = "quality_head"
  /\ productId \in {p.id : p \in products}
  /\ specChanges < MaxSpecChanges
  /\ specChanges' = specChanges + 1
  /\ IF editing = 0
     THEN /\ Cardinality(specifications) < MaxSpecs
          /\ (1..MaxSpecs) \ HeldSpecificationIds # {}
          /\ IF specifications_policy(u)
             THEN /\ specifications' = specifications \cup
                       {[id |-> gen_random_uuid(HeldSpecificationIds,
                                                MaxSpecs),
                         product_id |-> productId,
                         parameter_name |-> specData.parameter_name,
                         specification_type |-> specData.specification_type,
                         tolerance_min |-> specData.tolerance_min,
                         tolerance_max |-> specData.tolerance_max,
                         remarks_required |-> specData.remarks_required]}
                  /\ toast' = "Specification Added"
             ELSE /\ toast' = "Error"
                  /\ UNCHANGED specifications
     ELSE /\ editing \in {sp.id : sp \in specifications}
          /\ RowWithId(specifications, editing).product_id = productId
          /\ specifications' =
               IF specifications_policy(u)
               THEN (specifications \ {RowWithId(specifications, editing)})
                      \cup
                    {[id |-> editing,
                      product_id |-> productId,
                      parameter_name |-> specData.parameter_name,
                      specification_type |-> specData.specification_type,
                      tolerance_min |-> specData.tolerance_min,
                      tolerance_max |-> specData.tolerance_max,
                      remarks_required |-> specData.remarks_required]}
               ELSE specifications
          /\ toast' = "Specification Updated"
  /\ UNCHANGED <<user_roles, inspections, inspection_results,
                 inspection_images, approval_history, role, users,
                 inspection, approving, submitting, roleChanges, form>>
  /\ UNCHANGED <<profiles, signingUp, requester, products, productOptions,
                 selectedProduct, inspectionNumber, user, fetchingUsers,
                 assigning, fetchingUserData, profile, submitted>>

\* ProductSpecifications.handleDelete: a specification that result rows
\* reference is kept (trigger prevent_specification_deletion)
handleDelete(u, specId) ==
  /\ DashboardLayout(u)
  /\ role[u] = "quality_head"
  /\ specChanges < MaxSpecChanges
  /\ specChanges' = specChanges + 1
  /\ specId \in {sp.id : sp \in specifications}
  /\ IF ~specifications_policy(u)
     THEN /\ toast' = "Specification Deleted"
          /\ UNCHANGED specifications
     ELSE IF ReferencedByResults(specId)
     THEN /\ toast' = "Cannot Delete Specification"
          /\ UNCHANGED specifications
     ELSE /\ specifications' =
               specifications \ {RowWithId(specifications, specId)}
          /\ toast' = "Specification Deleted"
  /\ UNCHANGED <<user_roles, inspections, inspection_results,
                 inspection_images, approval_history, role, users,
                 inspection, approving, submitting, roleChanges, form>>
  /\ UNCHANGED <<profiles, signingUp, requester, products, productOptions,
                 selectedProduct, inspectionNumber, user, fetchingUsers,
                 assigning, fetchingUserData, profile, submitted>>

\* ------------------------------------------ registration and the role table
\* function quality_head_exists
quality_head_exists == \E row \in user_roles : row.role = "quality_head"

\* function get_role_for_registration_code
get_role_for_registration_code(_registration_code) ==
  IF _registration_code = bootstrap_code /\ ~quality_head_exists
  THEN "quality_head"
  ELSE "auditor"

\* function validate_registration_code
validate_registration_code(_registration_code) ==
  IF _registration_code = bootstrap_code
  THEN IF quality_head_exists THEN "invalid_bootstrap_exists"
       ELSE "valid_bootstrap"
  ELSE IF _registration_code = ""
  THEN IF ~quality_head_exists THEN "system_not_initialized"
       ELSE "valid_regular"
  ELSE "invalid_code"

\* INSERT ... ON CONFLICT (user_id) DO UPDATE of
\* assign_role_after_registration: the role table with the row of _user_id
\* written; the foreign key to profiles refuses an unknown identity
Upsert(_user_id, assigned_role) ==
  IF _user_id \notin profiles THEN user_roles
  ELSE {row \in user_roles : row.user_id # _user_id} \cup
         {[user_id |-> _user_id, role |-> assigned_role]}

\* AuthContext.signUp up to the validation of the registration code: a
\* request that fails and a code the store does not accept end the call with
\* an error
signUpValidate(u, registrationCode) ==
  /\ u \notin profiles
  /\ signingUp[u].pc = "idle"
  /\ \E validationError \in BOOLEAN :
       LET validationResult == validate_registration_code(registrationCode)
       IN  IF \/ validationError
              \/ validationResult \in {"invalid_bootstrap_exists",
                                       "system_not_initialized",
                                       "invalid_code"}
           THEN /\ toast' = "Sign Up Failed"
                /\ UNCHANGED signingUp
           ELSE /\ toast' = "none"
                /\ signingUp' = [signingUp EXCEPT ![u] =
                     [pc |-> "validated",
                      registrationCode |-> registrationCode,
                      validationResult |-> validationResult,
                      assigned_role |-> NoRole]]
  /\ UNCHANGED <<user_roles, inspections, inspection_results,
                 inspection_images, approval_history, role, users, inspection,
                 approving, submitting, roleChanges, specifications, form,
                 specChanges, profiles, requester, products, productOptions,
                 selectedProduct, inspectionNumber, user, fetchingUsers,
                 assigning, fetchingUserData, profile, submitted>>

\* AuthContext.signUp, supabase.auth.signUp: the new identity gets its
\* profile (trigger on_auth_user_created); a request that fails ends the
\* call with an error
signUpCreate(u) ==
  /\ signingUp[u].pc = "validated"
  /\ \E authError \in BOOLEAN :
       IF authError
       THEN /\ signingUp' = [signingUp EXCEPT ![u] = NoSignUp]
            /\ toast' = "Sign Up Failed"
            /\ UNCHANGED profiles
       ELSE /\ profiles' = profiles \cup {u}
            /\ signingUp' = [signingUp EXCEPT ![u].pc = "created"]
            /\ toast' = "none"
  /\ UNCHANGED <<user_roles, inspections, inspection_results,
                 inspection_images, approval_history, role, users, inspection,
                 approving, submitting, roleChanges, specifications, form,
                 specChanges, requester, products, productOptions,
                 selectedProduct, inspectionNumber, user, fetchingUsers,
                 assigning, fetchingUserData, profile, submitted>>

\* AuthContext.signUp, the call of assign_role_after_registration, first
\* statement of the function: the role is computed. The function runs at
\* READ COMMITTED, so other requests are served between its two statements.
\* An error of the call is logged and signUp returns without an error: the
\* Auth page reports the account and no role row is written
signUpAssignRole(u) ==
  /\ signingUp[u].pc = "created"
  /\ \E roleError \in BOOLEAN :
       IF roleError
       THEN /\ signingUp' = [signingUp EXCEPT ![u].pc = "idle"]
            /\ toast' = "Account Created!"
       ELSE /\ signingUp' = [signingUp EXCEPT
                 ![u].pc = "assigning",
                 ![u].assigned_role =
                    get_role_for_registration_code(
                      signingUp[u].registrationCode)]
            /\ toast' = "none"
  /\ UNCHANGED <<user_roles, inspections, inspection_results,
                 inspection_images, approval_history, role, users, inspection,
                 approving, submitting, roleChanges, specifications, form,
                 specChanges, profiles, requester, products, productOptions,
                 selectedProduct, inspectionNumber, user, fetchingUsers,
                 assigning, fetchingUserData, profile, submitted>>

\* AuthContext.signUp, the call of assign_role_after_registration, second
\* statement: the role row is written; signUp returns without an error and
\* the Auth page reports the account
signUpReturn(u) ==
  /\ signingUp[u].pc = "assigning"
  /\ user_roles' = Upsert(u, signingUp[u].assigned_role)
  /\ signingUp' = [signingUp EXCEPT ![u].pc = "idle"]
  /\ toast' = "Account Created!"
  /\ UNCHANGED <<inspections, inspection_results, inspection_images,
                 approval_history, role, users, inspection, approving,
                 submitting, roleChanges, specifications, form, specChanges,
                 profiles, requester, products, productOptions,
                 selectedProduct, inspectionNumber, user, fetchingUsers,
                 assigning, fetchingUserData, profile, submitted>>

\* the direct calls of assign_role_after_registration between their two
\* statements
Calls == Cardinality({u \in Users : assigning[u] # NoCall})

\* direct request: assign_role_after_registration, which any caller may
\* execute for any identity; its first statement computes the role. The
\* function runs at READ COMMITTED, so other requests are served between its
\* two statements
assign_role_after_registration(u, _user_id, _registration_code) ==
  /\ assigning[u] = NoCall
  /\ Len(requester) + Calls < MaxRoleRequests
  /\ assigning' = [assigning EXCEPT ![u] =
       [_user_id |-> _user_id,
        assigned_role |-> get_role_for_registration_code(_registration_code)]]
  /\ toast' = "none"
  /\ UNCHANGED <<user_roles, inspections, inspection_results,
                 inspection_images, approval_history, role, users, inspection,
                 approving, submitting, roleChanges, specifications, form,
                 specChanges, profiles, signingUp, requester, products,
                 productOptions, selectedProduct, inspectionNumber, user,
                 fetchingUsers, fetchingUserData, profile, submitted>>

\* assign_role_after_registration called directly, its second statement: the
\* role row is written and the call returns
assign_role_after_registration_upsert(u) ==
  /\ assigning[u] # NoCall
  /\ user_roles' = Upsert(assigning[u]._user_id, assigning[u].assigned_role)
  /\ assigning' = [assigning EXCEPT ![u] = NoCall]
  /\ requester' = Append(requester, u)
  /\ toast' = "none"
  /\ UNCHANGED <<inspections, inspection_results, inspection_images,
                 approval_history, role, users, inspection, approving,
                 submitting, roleChanges, specifications, form, specChanges,
                 profiles, signingUp, products, productOptions,
                 selectedProduct, inspectionNumber, user, fetchingUsers,
                 fetchingUserData, profile, submitted>>

\* direct request: insert of a role row
InsertUserRole(u, userId, newRole) ==
  /\ LET row == [user_id |-> userId, role |-> newRole]
     IN  IF /\ user_roles_policy(u)
            /\ user_roles_user_id_unique(row)
            /\ userId \in profiles
         THEN user_roles' = user_roles \cup {row}
         ELSE UNCHANGED user_roles
  /\ Len(requester) + Calls < MaxRoleRequests
  /\ requester' = Append(requester, u)
  /\ toast' = "none"
  /\ UNCHANGED <<inspections, inspection_results, inspection_images,
                 approval_history, role, users, inspection, approving,
                 submitting, roleChanges, specifications, form, specChanges,
                 profiles, signingUp, products, productOptions,
                 selectedProduct, inspectionNumber, user, fetchingUsers,
                 assigning, fetchingUserData, profile, submitted>>

\* direct request: update of the role row of userId to a role and a user id;
\* a row the policy hides is not touched
UpdateUserRole(u, userId, newUserId, newRole) ==
  /\ LET rows == {row \in user_roles : row.user_id = userId}
         row == [user_id |-> newUserId, role |-> newRole]
     IN  IF /\ user_roles_policy(u)
            /\ rows # {}
            /\ newUserId = userId \/ user_roles_user_id_unique(row)
            /\ newUserId \in profiles
         THEN user_roles' = (user_roles \ rows) \cup {row}
         ELSE UNCHANGED user_roles
  /\ Len(requester) + Calls < MaxRoleRequests
  /\ requester' = Append(requester, u)
  /\ toast' = "none"
  /\ UNCHANGED <<inspections, inspection_results, inspection_images,
                 approval_history, role, users, inspection, approving,
                 submitting, roleChanges, specifications, form, specChanges,
                 profiles, signingUp, products, productOptions,
                 selectedProduct, inspectionNumber, user, fetchingUsers,
                 assigning, fetchingUserData, profile, submitted>>

\* direct request: delete of the role row of userId
DeleteUserRole(u, userId) ==
  /\ user_roles' =
       IF user_roles_policy(u)
       THEN {row \in user_roles : row.user_id # userId}
       ELSE user_roles
  /\ Len(requester) + Calls < MaxRoleRequests
  /\ requester' = Append(requester, u)
  /\ toast' = "none"
  /\ UNCHANGED <<inspections, inspection_results, inspection_images,
                 approval_history, role, users, inspection, approving,
                 submitting, roleChanges, specifications, form, specChanges,
                 profiles, signingUp, products, productOptions,
                 selectedProduct, inspectionNumber, user, fetchingUsers,
                 assigning, fetchingUserData, profile, submitted>>

\* ----------------------------------------------------------- the products
\* CreateInspection on mount, fetchProducts: the form is opened anew, with no
\* product selected, when the list it shows is out of date, and loads the
\* active products
fetchProducts(u) ==
  /\ FormOpen(u)
  /\ productOptions[u] # ActiveProducts
  /\ productOptions' = [productOptions EXCEPT ![u] = ActiveProducts]
  /\ selectedProduct' = [selectedProduct EXCEPT ![u] = 0]
  /\ form' = [form EXCEPT ![u] = NoForm]
  /\ toast' = "none"
  /\ UNCHANGED <<user_roles, inspections, inspection_results,
                 inspection_images, approval_history, role, users, inspection,
                 approving, submitting, roleChanges, specifications,
                 specChanges, profiles, signingUp, requester, products,
                 inspectionNumber, user, fetchingUsers, assigning,
                 fetchingUserData, profile, submitted>>

\* CreateInspection, the product select: setSelectedProduct with an item of
\* the loaded list
setSelectedProduct(u, productId) ==
  /\ FormOpen(u)
  /\ productId \in productOptions[u]
  /\ productId # selectedProduct[u]
  /\ selectedProduct' = [selectedProduct EXCEPT ![u] = productId]
  /\ toast' = "none"
  /\ UNCHANGED <<user_roles, inspections, inspection_results,
                 inspection_images, approval_history, role, users, inspection,
                 approving, submitting, roleChanges, specifications, form,
                 specChanges, profiles, signingUp, requester, products,
                 productOptions, inspectionNumber, user, fetchingUsers,
                 assigning, fetchingUserData, profile, submitted>>

\* the product ids that a row of the store or a page holds
HeldProductIds ==
  {p.id : p \in products}
    \cup {sp.product_id : sp \in specifications}
    \cup {inspections[i].product_id : i \in DOMAIN inspections}
    \cup UNION {productOptions[u] : u \in Users}
    \cup {selectedProduct[u] : u \in Users}

\* Products.handleSubmit for a new product: the page is rendered for a
\* session whose role is quality_head; is_active defaults to true
handleSubmitProduct(u) ==
  /\ DashboardLayout(u)
  /\ role[u] = "quality_head"
  /\ (1..MaxProducts) \ HeldProductIds # {}
  /\ IF products_policy(u)
     THEN /\ products' = products \cup
               {[id |-> gen_random_uuid(HeldProductIds, MaxProducts),
                 is_active |-> TRUE]}
          /\ toast' = "Product Created"
     ELSE /\ toast' = "Error"
          /\ UNCHANGED products
  /\ UNCHANGED <<user_roles, inspections, inspection_results,
                 inspection_images, approval_history, role, users, inspection,
                 approving, submitting, roleChanges, specifications, form,
                 specChanges, profiles, signingUp, requester, productOptions,
                 selectedProduct, inspectionNumber, user, fetchingUsers,
                 assigning, fetchingUserData, profile, submitted>>

\* Products.handleDeactivate on a product the page lists: a row the policy
\* hides is not updated and no error is returned
handleDeactivate(u, productId) ==
  /\ DashboardLayout(u)
  /\ role[u] = "quality_head"
  /\ productId \in ActiveProducts
  /\ products' =
       IF products_policy(u)
       THEN (products \ {RowWithId(products, productId)}) \cup
              {[id |-> productId, is_active |-> FALSE]}
       ELSE products
  /\ toast' = "Product Deactivated"
  /\ UNCHANGED <<user_roles, inspections, inspection_results,
                 inspection_images, approval_history, role, users, inspection,
                 approving, submitting, roleChanges, specifications, form,
                 specChanges, profiles, signingUp, requester, productOptions,
                 selectedProduct, inspectionNumber, user, fetchingUsers,
                 assigning, fetchingUserData, profile, submitted>>

\* direct request: update of is_active on a product
UpdateProduct(u, productId, active) ==
  /\ productId \in {p.id : p \in products}
  /\ products' =
       IF products_policy(u)
       THEN (products \ {RowWithId(products, productId)}) \cup
              {[id |-> productId, is_active |-> active]}
       ELSE products
  /\ toast' = "none"
  /\ UNCHANGED <<user_roles, inspections, inspection_results,
                 inspection_images, approval_history, role, users, inspection,
                 approving, submitting, roleChanges, specifications, form,
                 specChanges, profiles, signingUp, requester, productOptions,
                 selectedProduct, inspectionNumber, user, fetchingUsers,
                 assigning, fetchingUserData, profile, submitted>>

\* direct request: delete of a product. The delete cascades to the
\* specifications of the product; it is refused as a whole when an
\* inspection refers to the product or a result row to one of those
\* specifications
DeleteProduct(u, productId) ==
  /\ productId \in {p.id : p \in products}
  /\ LET cascaded == {sp \in specifications : sp.product_id = productId}
     IN  IF /\ products_policy(u)
            /\ ~ReferencedByInspections(productId)
            /\ \A sp \in cascaded : ~ReferencedByResults(sp.id)
         THEN /\ products' = products \ {RowWithId(products, productId)}
              /\ specifications' = specifications \ cascaded
         ELSE UNCHANGED <<products, specifications>>
  /\ toast' = "none"
  /\ UNCHANGED <<user_roles, inspections, inspection_results,
                 inspection_images, approval_history, role, users, inspection,
                 approving, submitting, roleChanges, form, specChanges,
                 profiles, signingUp, requester, productOptions,
                 selectedProduct, inspectionNumber, user, fetchingUsers,
                 assigning, fetchingUserData, profile, submitted>>

\* direct request: delete of a specification
DeleteSpecification(u, specId) ==
  /\ specId \in {sp.id : sp \in specifications}
  /\ IF specifications_policy(u) /\ ~ReferencedByResults(specId)
     THEN specifications' =
            specifications \ {RowWithId(specifications, specId)}
     ELSE UNCHANGED specifications
  /\ toast' = "none"
  /\ UNCHANGED <<user_roles, inspections, inspection_results,
                 inspection_images, approval_history, role, users, inspection,
                 approving, submitting, roleChanges, form, specChanges,
                 profiles, signingUp, requester, products, productOptions,
                 selectedProduct, inspectionNumber, user, fetchingUsers,
                 assigning, fetchingUserData, profile, submitted>>

\* direct request: delete of the result rows of an inspection
DeleteResults(u, i) ==
  /\ i \in InspectionIds
  /\ inspection_results' =
       {r \in inspection_results :
          r.inspection_id # i \/ ~inspection_results_policy(u, r)}
  /\ toast' = "none"
  /\ UNCHANGED <<user_roles, inspections, inspection_images, approval_history,
                 role, users, inspection, approving, submitting, roleChanges,
                 specifications, form, specChanges, profiles, signingUp,
                 requester, products, productOptions, selectedProduct,
                 inspectionNumber, user, fetchingUsers, assigning,
                 fetchingUserData, profile, submitted>>

\* --------------------------------------- requests sent to the store directly
\* Any signed-in identity can send any request; row-level security decides:
\* a row the USING clause hides is not touched, a new row the check refuses is
\* an error, and either way the tables are left as they were.

InsertInspection(u, number, createdBy, status, remarks, productId) ==
  /\ Len(inspections) < MaxInspections
  /\ LET row == [inspection_number |-> number, status |-> status,
                 created_by |-> createdBy, remarks |-> remarks,
                 product_id |-> productId]
     IN  IF /\ inspections_insert_check(u, row)
            /\ inspections_product_id_fkey(row)
            /\ inspections_inspection_number_key(row)
         THEN inspections' = Append(inspections, row)
         ELSE UNCHANGED inspections
  /\ UNCHANGED <<user_roles, inspection_results, inspection_images,
                 approval_history, role, users, inspection, approving,
                 submitting, roleChanges>>
  /\ toast' = "none"
  /\ UNCHANGED <<specifications, form, specChanges>>
  /\ UNCHANGED <<profiles, signingUp, requester, products, productOptions,
                 selectedProduct, inspectionNumber, user, fetchingUsers,
                 assigning, fetchingUserData, profile, submitted>>

UpdateInspection(u, i, status, remarks) ==
  /\ i \in InspectionIds
  /\ LET newRow == [inspections[i] EXCEPT !.status = status,
                                          !.remarks = remarks]
     IN  IF ~inspections_update_using(u, inspections[i])
         THEN UNCHANGED inspections
         ELSE IF ~inspections_update_check(u, newRow)
         THEN UNCHANGED inspections
         ELSE /\ inspections' = [inspections EXCEPT ![i] = newRow]
  /\ UNCHANGED <<user_roles, inspection_results, inspection_images,
                 approval_history, role, users, inspection, approving,
                 submitting, roleChanges>>
  /\ toast' = "none"
  /\ UNCHANGED <<specifications, form, specChanges>>
  /\ UNCHANGED <<profiles, signingUp, requester, products, productOptions,
                 selectedProduct, inspectionNumber, user, fetchingUsers,
                 assigning, fetchingUserData, profile, submitted>>

\* a permitted delete would remove the row and, by ON DELETE CASCADE, its
\* results, images and history; ids are positions, so only the last row is
\* offered
DeleteInspection(u, i) ==
  /\ i \in InspectionIds
  /\ i = Len(inspections)
  /\ IF inspections_delete_using(u, inspections[i])
     THEN /\ inspections' = SubSeq(inspections, 1, i - 1)
          /\ inspection_results' =
               {r \in inspection_results : r.inspection_id # i}
          /\ inspection_images' =
               {r \in inspection_images : r.inspection_id # i}
          /\ approval_history' =
               SelectSeq(approval_history, LAMBDA e : e.inspection_id # i)
     ELSE /\ UNCHANGED <<inspections, inspection_results, inspection_images,
                         approval_history>>
  /\ UNCHANGED <<user_roles, role, users, inspection, approving, submitting,
                 roleChanges>>
  /\ toast' = "none"
  /\ UNCHANGED <<specifications, form, specChanges>>
  /\ UNCHANGED <<profiles, signingUp, requester, products, productOptions,
                 selectedProduct, inspectionNumber, user, fetchingUsers,
                 assigning, fetchingUserData, profile, submitted>>

InsertResult(u, i, specId, value, pass) ==
  /\ i \in InspectionIds
  /\ Cardinality(inspection_results) + Owed < MaxResults
  /\ LET row == [id |-> FreeId(inspection_results, MaxResults),
                 inspection_id |-> i, specification_id |-> specId,
                 actual_value |-> value, is_pass |-> pass,
                 remarks |-> NullText]
     IN  IF /\ inspection_results_policy(u, row)
            /\ inspection_results_specification_id_fkey(row)
         THEN inspection_results' = inspection_results \cup {row}
         ELSE UNCHANGED inspection_results
  /\ UNCHANGED <<user_roles, inspections, inspection_images,
                 approval_history, role, users, inspection, approving,
                 submitting, roleChanges>>
  /\ toast' = "none"
  /\ UNCHANGED <<specifications, form, specChanges>>
  /\ UNCHANGED <<profiles, signingUp, requester, products, productOptions,
                 selectedProduct, inspectionNumber, user, fetchingUsers,
                 assigning, fetchingUserData, profile, submitted>>

\* update of actual_value and inspection_id on the result row k
UpdateResult(u, k, i, value) ==
  /\ k \in {r.id : r \in inspection_results}
  /\ i \in InspectionIds
  /\ LET old == RowWithId(inspection_results, k)
         new == [old EXCEPT !.inspection_id = i, !.actual_value = value]
     IN  IF ~inspection_results_policy(u, old)
         THEN UNCHANGED inspection_results
         ELSE IF ~inspection_results_policy(u, new)
         THEN UNCHANGED inspection_results
         ELSE /\ inspection_results' =
                   (inspection_results \ {old}) \cup {new}
  /\ UNCHANGED <<user_roles, inspections, inspection_images,
                 approval_history, role, users, inspection, approving,
                 submitting, roleChanges>>
  /\ toast' = "none"
  /\ UNCHANGED <<specifications, form, specChanges>>
  /\ UNCHANGED <<profiles, signingUp, requester, products, productOptions,
                 selectedProduct, inspectionNumber, user, fetchingUsers,
                 assigning, fetchingUserData, profile, submitted>>

DeleteResult(u, k) ==
  /\ k \in {r.id : r \in inspection_results}
  /\ LET old == RowWithId(inspection_results, k)
     IN  IF inspection_results_policy(u, old)
         THEN inspection_results' = inspection_results \ {old}
         ELSE UNCHANGED inspection_results
  /\ UNCHANGED <<user_roles, inspections, inspection_images,
                 approval_history, role, users, inspection, approving,
                 submitting, roleChanges>>
  /\ toast' = "none"
  /\ UNCHANGED <<specifications, form, specChanges>>
  /\ UNCHANGED <<profiles, signingUp, requester, products, productOptions,
                 selectedProduct, inspectionNumber, user, fetchingUsers,
                 assigning, fetchingUserData, profile, submitted>>

InsertImage(u, i, url) ==
  /\ i \in InspectionIds
  /\ Cardinality(inspection_images) < MaxImages
  /\ LET row == [id |-> FreeId(inspection_images, MaxImages),
                 inspection_id |-> i, image_url |-> url]
     IN  IF inspection_images_policy(u, row)
         THEN inspection_images' = inspection_images \cup {row}
         ELSE UNCHANGED inspection_images
  /\ UNCHANGED <<user_roles, inspections, inspection_results,
                 approval_history, role, users, inspection, approving,
                 submitting, roleChanges>>
  /\ toast' = "none"
  /\ UNCHANGED <<specifications, form, specChanges>>
  /\ UNCHANGED <<profiles, signingUp, requester, products, productOptions,
                 selectedProduct, inspectionNumber, user, fetchingUsers,
                 assigning, fetchingUserData, profile, submitted>>

UpdateImage(u, k, i, url) ==
  /\ k \in {r.id : r \in inspection_images}
  /\ i \in InspectionIds
  /\ LET old == RowWithId(inspection_images, k)
         new == [id |-> k, inspection_id |-> i, image_url |-> url]
     IN  IF ~inspection_images_policy(u, old)
         THEN UNCHANGED inspection_images
         ELSE IF ~inspection_images_policy(u, new)
         THEN UNCHANGED inspection_images
         ELSE /\ inspection_images' = (inspection_images \ {old}) \cup {new}
  /\ UNCHANGED <<user_roles, inspections, inspection_results,
                 approval_history, role, users, inspection, approving,
                 submitting, roleChanges>>
  /\ toast' = "none"
  /\ UNCHANGED <<specifications, form, specChanges>>
  /\ UNCHANGED <<profiles, signingUp, requester, products, productOptions,
                 selectedProduct, inspectionNumber, user, fetchingUsers,
                 assigning, fetchingUserData, profile, submitted>>

DeleteImage(u, k) ==
  /\ k \in {r.id : r \in inspection_images}
  /\ LET old == RowWithId(inspection_images, k)
     IN  IF inspection_images_policy(u, old)
         THEN inspection_images' = inspection_images \ {old}
         ELSE UNCHANGED inspection_images
  /\ UNCHANGED <<user_roles, inspections, inspection_results,
                 approval_history, role, users, inspection, approving,
                 submitting, roleChanges>>
  /\ toast' = "none"
  /\ UNCHANGED <<specifications, form, specChanges>>
  /\ UNCHANGED <<profiles, signingUp, requester, products, productOptions,
                 selectedProduct, inspectionNumber, user, fetchingUsers,
                 assigning, fetchingUserData, profile, submitted>>

\* rows a direct request to approval_history carries: a final approval by a
\* quality head, claimed for any approver
HistoryInputs ==
  {[inspection_id |-> i, approver_id |-> a, approver_role |-> "quality_head",
    action |-> "approved", previous_status |-> "pending_quality_head",
    new_status |-> "approved", comments |-> c] :
     i \in InspectionIds, a \in Users, c \in {"forged"}}

\* the created_at a direct request stores: the default, or a time the row
\* carries, which no policy and no trigger looks at; the time carried is
\* earlier than the time of every stored entry
created_at(backdated) ==
  IF backdated THEN 0 - now ELSE now

\* the row a direct request carries with its created_at
Stored(row, t) ==
  [inspection_id |-> row.inspection_id,
   approver_id |-> row.approver_id,
   approver_role |-> row.approver_role,
   action |-> row.action,
   previous_status |-> row.previous_status,
   new_status |-> row.new_status,
   comments |-> row.comments,
   created_at |-> t]

InsertHistory(u, row, backdated) ==
  /\ Len(approval_history) < MaxHistory
  /\ IF approval_history_insert_check(u, row)
     THEN approval_history' =
            Append(approval_history, Stored(row, created_at(backdated)))
     ELSE UNCHANGED approval_history
  /\ UNCHANGED <<user_roles, inspections, inspection_results,
                 inspection_images, role, users, inspection, approving,
                 submitting, roleChanges>>
  /\ toast' = "none"
  /\ UNCHANGED <<specifications, form, specChanges>>
  /\ UNCHANGED <<profiles, signingUp, requester, products, productOptions,
                 selectedProduct, inspectionNumber, user, fetchingUsers,
                 assigning, fetchingUserData, profile, submitted>>

UpdateHistory(u, k, row) ==
  /\ k \in 1..Len(approval_history)
  /\ IF approval_history_update_using(u, approval_history[k])
     THEN /\ approval_history' =
               [approval_history EXCEPT
                  ![k] = Stored(row, approval_history[k].created_at)]
     ELSE UNCHANGED approval_history
  /\ UNCHANGED <<user_roles, inspections, inspection_results,
                 inspection_images, role, users, inspection, approving,
                 submitting, roleChanges>>
  /\ toast' = "none"
  /\ UNCHANGED <<specifications, form, specChanges>>
  /\ UNCHANGED <<profiles, signingUp, requester, products, productOptions,
                 selectedProduct, inspectionNumber, user, fetchingUsers,
                 assigning, fetchingUserData, profile, submitted>>

DeleteHistory(u, k) ==
  /\ k \in 1..Len(approval_history)
  /\ IF approval_history_delete_using(u, approval_history[k])
     THEN /\ approval_history' =
               SubSeq(approval_history, 1, k - 1) \o
               SubSeq(approval_history, k + 1, Len(approval_history))
     ELSE UNCHANGED approval_history
  /\ UNCHANGED <<user_roles, inspections, inspection_results,
                 inspection_images, role, users, inspection, approving,
                 submitting, roleChanges>>
  /\ toast' = "none"
  /\ UNCHANGED <<specifications, form, specChanges>>
  /\ UNCHANGED <<profiles, signingUp, requester, products, productOptions,
                 selectedProduct, inspectionNumber, user, fetchingUsers,
                 assigning, fetchingUserData, profile, submitted>>

\* the review pages
ReviewPages ==
  \/ \E u \in Users, i \in InspectionIds : fetchInspectionData(u, i)
  \/ \E u \in Users, a \in Actions, c \in Comments :
       handleApprovalInsert(u, a, c)
  \/ \E u \in Users : handleApprovalUpdate(u)

\* the Users page of the quality head
UsersPage ==
  \/ \E u \in Users : fetchUsers(u)
  \/ \E u \in Users : fetchUsersRoles(u)
  \/ \E u \in Users, t \in Users, r \in AppRole \cup {NoRole} :
       handleRoleChange(u, t, r)

\* the inspection form of the auditors: the product and its specifications
ProductPages ==
  \/ \E u \in Users : fetchProducts(u)
  \/ \E u \in Users, p \in 1..MaxProducts : setSelectedProduct(u, p)
  \/ \E u \in Users : fetchSpecifications(u)

\* the inspection form of the auditors: the inputs of the results
ResultPages ==
  \/ \E u \in Users, index \in 1..MaxSpecs, value \in FormValues :
       handleResultChange(u, index, "actual_value", value)
  \/ \E u \in Users, index \in 1..MaxSpecs, value \in FormRemarks :
       handleResultChange(u, index, "remarks", value)
  \/ \E u \in Users, index \in 1..MaxSpecs : togglePassFail(u, index)

\* the inspection form of the auditors: handleSubmit, request by request
SubmitPages ==
  \/ \E u \in Users : handleSubmit(u)
  \/ \E u \in Users, r \in Remarks : handleSubmitInspection(u, r)
  \/ \E u \in Users : handleSubmitResultRows(u)

\* steps of the sessions' pages
Pages ==
  \/ UserData
  \/ ReviewPages
  \/ UsersPage
  \/ ProductPages
  \/ ResultPages
  \/ SubmitPages

\* direct requests on the inspections table
InspectionRequests ==
  \/ \E u \in Users, n \in 1..MaxInspections, c \in Users,
        s \in InspectionStatus, r \in Remarks, p \in 1..MaxProducts :
       InsertInspection(u, n, c, s, r, p)
  \/ \E u \in Users, i \in InspectionIds, s \in InspectionStatus,
        r \in Remarks : UpdateInspection(u, i, s, r)
  \/ \E u \in Users, i \in InspectionIds : DeleteInspection(u, i)

\* direct requests on the inspection_results table
ResultRequests ==
  \/ \E u \in Users, i \in InspectionIds, specId \in 1..MaxSpecs,
        v \in ActualValues, pass \in BOOLEAN :
       InsertResult(u, i, specId, v, pass)
  \/ \E u \in Users, k \in 1..(2 * MaxResults + MaxSpecs),
        i \in InspectionIds, v \in ActualValues : UpdateResult(u, k, i, v)
  \/ \E u \in Users, k \in 1..(2 * MaxResults + MaxSpecs) :
       DeleteResult(u, k)

\* direct requests on the inspection_images table
ImageRequests ==
  \/ \E u \in Users, i \in InspectionIds, url \in ImageUrls :
       InsertImage(u, i, url)
  \/ \E u \in Users, k \in 1..MaxImages, i \in InspectionIds,
        url \in ImageUrls : UpdateImage(u, k, i, url)
  \/ \E u \in Users, k \in 1..MaxImages : DeleteImage(u, k)

\* direct requests on the approval_history table
HistoryRequests ==
  \/ \E u \in Users, row \in HistoryInputs, backdated \in BOOLEAN :
       InsertHistory(u, row, backdated)
  \/ \E u \in Users, k \in 1..MaxHistory, row \in HistoryInputs :
       UpdateHistory(u, k, row)
  \/ \E u \in Users, k \in 1..MaxHistory : DeleteHistory(u, k)

\* direct requests on the role table
RoleRequests ==
  \/ \E u \in Users, t \in Users, r \in AppRole : InsertUserRole(u, t, r)
  \/ \E u \in Users, t \in Users, n \in Users, r \in AppRole :
       UpdateUserRole(u, t, n, r)
  \/ \E u \in Users, t \in Users : DeleteUserRole(u, t)

\* direct calls of assign_role_after_registration, statement by statement
RoleCalls ==
  \/ \E u \in Users, t \in Users, c \in RegistrationCodes :
       assign_role_after_registration(u, t, c)
  \/ \E u \in Users : assign_role_after_registration_upsert(u)

\* AuthContext.signUp, request by request
SignUp ==
  \/ \E u \in Users, c \in RegistrationCodes : signUpValidate(u, c)
  \/ \E u \in Users : signUpCreate(u)
  \/ \E u \in Users : signUpAssignRole(u)
  \/ \E u \in Users : signUpReturn(u)

\* the sessions and the inspection workflow: signing in and out, the handlers
\* of the pages and the direct requests on the tables of an inspection; the
\* catalogue, the registration and the role table are composed in the
\* specifications further below
Next ==
  \/ \E u \in Users : signIn(u)
  \/ \E u \in Users : signOut(u)
  \/ Pages
  \/ InspectionRequests
  \/ ResultRequests
  \/ ImageRequests
  \/ HistoryRequests

Spec == Init /\ [][Next]_vars

\* The specifications below compose the steps that write or read the state
\* the properties checked under them are about, each step for every session
\* and every identity. They start from the system in use, where every session
\* is signed in with its role loaded, from a state the pages have brought
\* that system to (an inspection submitted, reviewed, a role changed), or
\* from the store after the migrations.

\* inspections and the approval history: the form, the review pages, direct
\* inserts of inspections and direct requests on the history
NextLedger ==
  \/ ReviewPages
  \/ SubmitPages
  \/ \E u \in Users, n \in 1..MaxInspections, c \in Users,
        s \in InspectionStatus, r \in Remarks, p \in 1..MaxProducts :
       InsertInspection(u, n, c, s, r, p)
  \/ HistoryRequests

SpecLedger == Init /\ [][NextLedger]_vars

\* the review workflow on the submitted inspection: the review pages, and
\* statuses and history entries written by direct requests
NextReview ==
  \/ ReviewPages
  \/ \E u \in Users, i \in InspectionIds, s \in InspectionStatus,
        r \in Remarks : UpdateInspection(u, i, s, r)
  \/ \E u \in Users, row \in HistoryInputs, backdated \in BOOLEAN :
       InsertHistory(u, row, backdated)

SpecReview == InitPending /\ [][NextReview]_vars

\* the pages after the submission: the review pages and the Users page
NextPages ==
  \/ ReviewPages
  \/ UsersPage

SpecPages == InitPending /\ [][NextPages]_vars

\* decisions of a team leader who is made a HOF auditor meanwhile: the review
\* pages, the Users page with that appointment, and direct updates of the
\* status
NextStale ==
  \/ ReviewPages
  \/ \E u \in Users : fetchUsers(u)
  \/ \E u \in Users : fetchUsersRoles(u)
  \/ \E u \in Users : handleRoleChange(u, "u2", "hof_auditor")
  \/ \E u \in Users, i \in InspectionIds, s \in InspectionStatus :
       UpdateInspection(u, i, s, "r1")

SpecStale == InitPending /\ [][NextStale]_vars

\* the inspection on its way through the remaining stages: the review pages,
\* and direct requests on the inspection and on its result rows
NextChain ==
  \/ ReviewPages
  \/ \E u \in Users, i \in InspectionIds, s \in InspectionStatus,
        r \in Remarks : UpdateInspection(u, i, s, r)
  \/ \E u \in Users, i \in InspectionIds : DeleteInspection(u, i)
  \/ ResultRequests

SpecChain == InitReviewed /\ [][NextChain]_vars

\* the review workflow on the submitted inspection and its result rows
NextReviewResults ==
  \/ ReviewPages
  \/ \E u \in Users, i \in InspectionIds, s \in InspectionStatus,
        r \in Remarks : UpdateInspection(u, i, s, r)
  \/ ResultRequests

SpecReviewResults == InitPending /\ [][NextReviewResults]_vars

\* the submitted inspection moved through the stages by direct updates, with
\* a HOF auditor appointed on the Users page, and the evidence rows
NextReviewEvidence ==
  \/ UsersPage
  \/ \E u \in Users, i \in InspectionIds, s \in InspectionStatus,
        r \in Remarks : UpdateInspection(u, i, s, r)
  \/ ImageRequests

SpecReviewEvidence == InitPending /\ [][NextReviewEvidence]_vars

\* rows a direct request to approval_history carries with an empty or a
\* whitespace-only comment: the caller's own decision on a pending inspection
BlankHistoryInputs ==
  {[inspection_id |-> i, approver_id |-> a, approver_role |-> "team_leader",
    action |-> "approved", previous_status |-> "pending_team_leader",
    new_status |-> "pending_hof_auditor", comments |-> c] :
     i \in InspectionIds, a \in Users, c \in {"", " "}}

\* the review pages on the submitted inspection, and history inserts with
\* blank comments
NextComments ==
  \/ ReviewPages
  \/ \E u \in Users, row \in BlankHistoryInputs, backdated \in BOOLEAN :
       InsertHistory(u, row, backdated)

SpecComments == InitPending /\ [][NextComments]_vars

\* the inspection form of the auditors and the specification pages of the
\* quality head
NextForm ==
  \/ \E u \in Users : fetchSpecifications(u)
  \/ ResultPages
  \/ SubmitPages
  \/ \E u \in Users, p \in 1..MaxProducts, editing \in 0..MaxSpecs,
        specData \in SpecInputs :
       handleSubmitSpecification(u, p, editing, specData)
  \/ \E u \in Users, specId \in 1..MaxSpecs : handleDelete(u, specId)

SpecForm == Init /\ [][NextForm]_vars

\* the rows of the specification dialog that ask for no value and no remark
CheckInputs ==
  {specData \in SpecInputs :
     specData.specification_type = "functional" /\ ~specData.remarks_required}

\* the product and specification pages of the quality head, the inspection
\* form, and direct requests on products, specifications and result rows
NextCatalog ==
  \/ ProductPages
  \/ SubmitPages
  \/ \E u \in Users, p \in 1..MaxProducts, specData \in CheckInputs :
       handleSubmitSpecification(u, p, 0, specData)
  \/ \E u \in Users, specId \in 1..MaxSpecs : handleDelete(u, specId)
  \/ \E u \in Users : handleSubmitProduct(u)
  \/ \E u \in Users, p \in 1..MaxProducts : handleDeactivate(u, p)
  \/ \E u \in Users, p \in 1..MaxProducts, a \in BOOLEAN :
       UpdateProduct(u, p, a)
  \/ \E u \in Users, p \in 1..MaxProducts : DeleteProduct(u, p)
  \/ \E u \in Users, specId \in 1..MaxSpecs : DeleteSpecification(u, specId)
  \/ \E u \in Users, i \in InspectionIds : DeleteResults(u, i)

SpecCatalog == Init /\ [][NextCatalog]_vars

\* The store after the migrations: no profile, no role, no product, and
\* nobody signed in
InitRegistry ==
  /\ user_roles = {}
  /\ inspections = << >>
  /\ inspection_results = {}
  /\ inspection_images = {}
  /\ approval_history = << >>
  /\ role = [u \in Users |-> NoRole]
  /\ users = [u \in Users |-> [t \in Users |-> Unlisted]]
  /\ inspection = [u \in Users |-> NoInspection]
  /\ approving = [u \in Users |-> "none"]
  /\ submitting = [u \in Users |-> 0]
  /\ roleChanges = 0
  /\ toast = "none"
  /\ specifications = {}
  /\ form = [u \in Users |-> NoForm]
  /\ specChanges = 0
  /\ profiles = {}
  /\ signingUp = [u \in Users |-> NoSignUp]
  /\ requester = << >>
  /\ products = {}
  /\ productOptions = [u \in Users |-> {}]
  /\ selectedProduct = [u \in Users |-> 0]
  /\ inspectionNumber = [u \in Users |-> 0]
  /\ user = [u \in Users |-> FALSE]
  /\ fetchingUsers = [u \in Users |-> {}]
  /\ assigning = [u \in Users |-> NoCall]
  /\ fetchingUserData = [u \in Users |-> EmptyBag]
  /\ profile = [u \in Users |-> FALSE]
  /\ submitted = [u \in Users |-> {}]

\* registration, the Users page, and direct requests and calls on the role
\* table
NextRegistry ==
  \/ SignUp
  \/ UsersPage
  \/ RoleRequests
  \/ RoleCalls

SpecRegistry == InitJoining /\ [][NextRegistry]_vars

\* registration and the sessions signing in and out
NextSessions ==
  \/ SignUp
  \/ \E u \in Users : signIn(u)
  \/ \E u \in Users : signOut(u)
  \/ UserData

SpecSessions == InitRegistry /\ [][NextSessions]_vars

\* the roles of the registered identities: the Users page and direct
\* requests on the role table
NextRoles ==
  \/ UsersPage
  \/ RoleRequests

SpecRoles == Init /\ [][NextRoles]_vars

\* the Users page and direct calls of assign_role_after_registration
NextRoleCalls ==
  \/ UsersPage
  \/ RoleCalls

SpecRoleCalls == Init /\ [][NextRoleCalls]_vars

\* the creation of inspections: the form of the auditors, the Users page and
\* direct requests on the inspections
NextCreate ==
  \/ UsersPage
  \/ SubmitPages
  \/ InspectionRequests

SpecCreate == Init /\ [][NextCreate]_vars

\* the inspection numbers: the form of the two auditors, and direct inserts
\* of inspections that carry a number of the caller's choice
NextNumbers ==
  \/ SubmitPages
  \/ \E u \in Users, n \in 1..MaxInspectionNumber, c \in Users,
        s \in InspectionStatus, r \in Remarks, p \in 1..MaxProducts :
       InsertInspection(u, n, c, s, r, p)

SpecNumbers == InitAuditors /\ [][NextNumbers]_vars

\* rows a direct request to approval_history carries that describe no
\* decision of the workflow: the caller's own entry, as an auditor, taking an
\* approved inspection back to pending_team_leader
OffTableHistoryInputs ==
  {[inspection_id |-> i, approver_id |-> a, approver_role |-> "auditor",
    action |-> "rejected", previous_status |-> "approved",
    new_status |-> "pending_team_leader", comments |-> "forged"] :
     i \in InspectionIds, a \in Users}

\* the review pages on the submitted inspection, the Users page taking a role
\* away, and history inserts of such rows
NextEntries ==
  \/ ReviewPages
  \/ \E u \in Users : fetchUsers(u)
  \/ \E u \in Users : fetchUsersRoles(u)
  \/ \E u \in Users, t \in Users : handleRoleChange(u, t, NoRole)
  \/ \E u \in Users, row \in OffTableHistoryInputs, backdated \in BOOLEAN :
       InsertHistory(u, row, backdated)

SpecEntries == InitPending /\ [][NextEntries]_vars

\* decisions with two inspections stored: the form, a direct insert with
\* another number, evidence rows, and the review pages
NextDecide ==
  \/ SubmitPages
  \/ \E u \in Users, n \in 1..MaxInspectionNumber, r \in Remarks :
       InsertInspection(u, n, u, "pending_team_leader", r, 1)
  \/ \E u \in Users, i \in InspectionIds, url \in ImageUrls :
       InsertImage(u, i, url)
  \/ ReviewPages

SpecDecide == Init /\ [][NextDecide]_vars

\* ------------------------------------------------------------------ claims
\* the transition table of the approval chain
TransitionTable ==
  {<<"pending_team_leader", "team_leader", "approved", "pending_hof_auditor">>,
   <<"pending_team_leader", "team_leader", "rejected", "rejected">>,
   <<"pending_hof_auditor", "hof_auditor", "approved", "pending_quality_head">>,
   <<"pending_hof_auditor", "hof_auditor", "rejected", "rejected">>,
   <<"pending_quality_head", "quality_head", "approved", "approved">>,
   <<"pending_quality_head", "quality_head", "rejected", "rejected">>}

ResultsOf(i) == {r \in inspection_results : r.inspection_id = i}

ImagesOf(i) == {r \in inspection_images : r.inspection_id = i}

\* u's handleApproval appends its history entry in this step
Appends(u) == approving[u] = "none" /\ approving'[u] # "none"

\* u's handleApproval returns in this step, after its status update
Completes(u) == approving[u] # "none" /\ approving'[u] = "none"

\* the step changes the status of inspection i
StatusChanges(i) ==
  /\ i \in InspectionIds
  /\ i \in 1..Len(inspections')
  /\ inspections'[i].status # inspections[i].status

\* C1: a decide call changes a status only along a row of the transition
\* table for the caller's role and action, and no step of any kind applies a
\* status change that is not the change of some row for a role somebody holds.
C1_OnlyTableTransitions ==
  [][/\ \A u \in Users :
          Completes(u) /\ StatusChanges(inspection[u].id) =>
            <<inspections[inspection[u].id].status, get_user_role(u),
              approving[u], inspections'[inspection[u].id].status>>
              \in TransitionTable
     /\ \A i \in InspectionIds :
          StatusChanges(i) =>
            \E u \in Users, a \in Actions :
              <<inspections[i].status, get_user_role(u), a,
                inspections'[i].status>> \in TransitionTable]_vars

C3_StaleDecideConflicts ==
  [][\A u \in Users :
       /\ Appends(u) /\ inspection[u].id \in InspectionIds =>
            inspections[inspection[u].id].status = inspection[u].status
       /\ Completes(u) /\ ~StatusChanges(inspection[u].id) =>
            toast' = "Error"]_vars

\* C4: the history append and the status write of one decide call take
\* effect together: a call that has appended its entry returns with the
\* status it computed written to the inspection.
C4_AppendAndWriteTogether ==
  [][\A u \in Users :
       Completes(u) =>
         /\ StatusChanges(inspection[u].id)
         /\ inspections'[inspection[u].id].status =
              getNextStatus(inspection[u].status, approving[u])]_vars

\* C5: a decide call whose (stored status, registry role of the caller,
\* action) is no row of the transition table leaves the number of history
\* entries and the status unchanged.
C5_OffTableDecideChangesNothing ==
  [][\A u \in Users :
       /\ (Appends(u) \/ Completes(u))
       /\ inspection[u].id \in InspectionIds
       /\ ~\E n \in InspectionStatus :
             <<inspections[inspection[u].id].status, get_user_role(u),
               IF Appends(u) THEN approving'[u] ELSE approving[u], n>>
               \in TransitionTable
       => /\ Len(approval_history') = Len(approval_history)
          /\ inspections' = inspections]_vars

\* the approval-history entries of inspection i in the table h, as the
\* detail page reads them: ordered by created_at, ascending
entriesFor(h, i) ==
  LET rows == {h[k] : k \in {m \in 1..Len(h) : h[m].inspection_id = i}}
  IN  CHOOSE sq \in [1..Cardinality(rows) -> rows] :
        /\ \A a, b \in 1..Cardinality(rows) : a # b => sq[a] # sq[b]
        /\ \A a, b \in 1..Cardinality(rows) :
             a < b => sq[a].created_at < sq[b].created_at

\* the history of inspection i before and after the step
HistoryOf(i) == entriesFor(approval_history, i)

HistoryAfter(i) == entriesFor(approval_history', i)

\* C6: the approval history is append-only: no step changes or removes an
\* entry written so far, and the history of every inspection, read in time
\* order, is after every step an extension of what it was before.
C6_HistoryAppendOnly ==
  [][/\ Len(approval_history') >= Len(approval_history)
     /\ SubSeq(approval_history', 1, Len(approval_history)) =
          approval_history
     /\ \A i \in InspectionIds :
          /\ Len(HistoryAfter(i)) >= Len(HistoryOf(i))
          /\ SubSeq(HistoryAfter(i), 1, Len(HistoryOf(i))) =
               HistoryOf(i)]_vars

\* C7: while an inspection is rejected, no step inserts, changes or removes a
\* result row of it.
C7_RejectedResultsFrozen ==
  [][\A i \in InspectionIds :
       inspections[i].status = "rejected" =>
         {r \in inspection_results' : r.inspection_id = i} = ResultsOf(i)]_vars

\* C8: a rejected inspection stays rejected and no field of its row changes.
C8_RejectedRowFrozen ==
  [][\A i \in InspectionIds :
       inspections[i].status = "rejected" =>
         /\ i \in 1..Len(inspections')
         /\ inspections'[i] = inspections[i]]_vars

\* C9: while an inspection is approved, no step adds, changes or removes an
\* evidence row of it.
C9_ApprovedEvidenceFrozen ==
  [][\A i \in InspectionIds :
       inspections[i].status = "approved" =>
         {r \in inspection_images' : r.inspection_id = i} = ImagesOf(i)]_vars

\* C10: every entry a step appends to the history carries as approver_role
\* the role its approver holds in the registry at that step.
C10_RoleAtDecisionTime ==
  [][\A k \in (Len(approval_history) + 1)..Len(approval_history') :
       approval_history'[k].approver_role =
         get_user_role(approval_history'[k].approver_id)]_vars

\* C11: a decide call with an empty or whitespace-only comment changes
\* neither an inspection nor the history, and every stored history entry has
\* a comment that is not blank.
C11_BlankCommentRefused ==
  [][/\ toast' = "Comment Required" =>
          /\ inspections' = inspections
          /\ approval_history' = approval_history
     /\ \A k \in 1..Len(approval_history') :
          Trim(approval_history'[k].comments) # ""]_vars

\* C12: a decide call that returns while the stored status differs from the
\* status its caller loaded leaves the stored status as it is.
C12_StaleWriteNeverOverwrites ==
  [][\A u \in Users :
       /\ Completes(u)
       /\ inspection[u].id \in InspectionIds
       /\ inspections[inspection[u].id].status # inspection[u].status
       => ~StatusChanges(inspection[u].id)]_vars

\* the entry is an approval recorded for role r, moving its inspection from
\* status s to status t
ApprovedEntry(entry, r, s, t) ==
  /\ entry.action = "approved"
  /\ entry.approver_role = r
  /\ entry.previous_status = s
  /\ entry.new_status = t

\* C13: the history of every approved inspection holds, in this order of
\* time, the approval of a team leader, of a HOF auditor and of a quality
\* head.
C13_NoStageSkipped ==
  \A i \in InspectionIds :
    inspections[i].status = "approved" =>
      \E a, b, c \in 1..Len(HistoryOf(i)) :
        /\ a < b /\ b < c
        /\ ApprovedEntry(HistoryOf(i)[a], "team_leader",
                         "pending_team_leader", "pending_hof_auditor")
        /\ ApprovedEntry(HistoryOf(i)[b], "hof_auditor",
                         "pending_hof_auditor", "pending_quality_head")
        /\ ApprovedEntry(HistoryOf(i)[c], "quality_head",
                         "pending_quality_head", "approved")

\* C14: every step that creates an inspection creates it with status
\* pending_team_leader.
C14_CreatedPending ==
  [][Len(inspections') > Len(inspections) =>
       inspections'[Len(inspections')].status = "pending_team_leader"]_vars

\* the Users page of q has two calls of fetchUsers in flight, one of a mount
\* that awaits its role rows and one that a handleRoleChange has made: no
\* call of fetchUsers has ended in the step just taken
UsersLoading(q) ==
  /\ FetchCalled \in fetchingUsers[q]
  /\ \E call \in fetchingUsers[q] : call.pc = "profiles"

\* C15: every step that creates an inspection is a request of an identity
\* that holds the auditor role in the registry at that step, the insert of a
\* handleSubmit of its session or an insert it sends directly, and the
\* inspection created has that identity as created_by.
C15_OnlyAuditorsCreate ==
  [][Len(inspections') > Len(inspections) =>
       \E u \in Users :
         /\ \/ \E r \in Remarks : handleSubmitInspection(u, r)
            \/ \E n \in 1..MaxInspections, c \in Users,
                  s \in InspectionStatus, r \in Remarks,
                  p \in 1..MaxProducts :
                 InsertInspection(u, n, c, s, r, p)
         /\ get_user_role(u) = "auditor"
         /\ inspections'[Len(inspections')].created_by = u]_vars

\* a session that still shows the auditor role of a user who lost it has
\* called handleSubmit: the insert was refused and nothing was created. The
\* Users page is still loading, so the error shown is the one of handleSubmit
C15_Witness ==
  /\ toast = "Error"
  /\ roleChanges = MaxRoleChanges
  /\ inspections = << >>
  /\ \E q \in Users : UsersLoading(q)
  /\ \E u \in Users : role[u] = "auditor" /\ get_user_role(u) # "auditor"

\* C20: while a submitted inspection is pending at any stage, no step adds,
\* changes or removes a result row of it.
C20_ResultsWriteOnce ==
  [][\A i \in InspectionIds :
       /\ inspections[i].status \in
            {"pending_team_leader", "pending_hof_auditor",
             "pending_quality_head"}
       /\ \A u \in Users : submitting[u] # i
       => {r \in inspection_results' : r.inspection_id = i} = ResultsOf(i)]_vars

\* u's handleSubmit inserts its inspection in this step
Submits(u) == submitting[u] = 0 /\ submitting'[u] # 0

\* the number v lies within the tolerances of specification sp
WithinTolerance(v, sp) ==
  v[1] >= sp.tolerance_min[1] /\ v[1] <= sp.tolerance_max[1]

\* sp is a dimensional specification with both tolerances
HasTolerances(sp) ==
  /\ sp.specification_type = "dimensional"
  /\ sp.tolerance_min # Null
  /\ sp.tolerance_max # Null

\* C16: when handleSubmit reports success, the inspection it created has
\* exactly one result row for every specification the product had when
\* handleSubmit was called, and no other result row.
C16_OneResultPerSpecification ==
  [][\A u \in Users :
       submitting[u] # 0 /\ submitting'[u] = 0 /\ toast' = "Success" =>
         LET rows == {r \in inspection_results' :
                        r.inspection_id = submitting[u]}
         IN  /\ \A id \in submitted[u] :
                  Cardinality({r \in rows : r.specification_id = id}) = 1
             /\ \A r \in rows : r.specification_id \in submitted[u]]_vars

\* C17: every result row a step stores for a dimensional specification with
\* tolerances, with a value that is a number, has is_pass true exactly when
\* the value lies within the tolerances.
C17_PassIffWithinTolerance ==
  [][\A r \in inspection_results' \ inspection_results :
       \A sp \in specifications :
         /\ sp.id = r.specification_id
         /\ HasTolerances(sp)
         /\ parseFloat(r.actual_value) # NaN
         => (r.is_pass <=> WithinTolerance(parseFloat(r.actual_value), sp))]_vars

\* C18: a handleSubmit that creates an inspection has, for every dimensional
\* specification with tolerances that the form shows as the product has it,
\* a value that is a number.
C18_NonNumericValueRefused ==
  [][\A u \in Users :
       Submits(u) =>
         \A index \in 1..Len(form[u].results) :
           /\ form[u].specifications[index] \in specifications
           /\ HasTolerances(form[u].specifications[index])
           => parseFloat(form[u].results[index].actual_value) # NaN]_vars

\* u's handleSubmit accepts the form in this step and asks for the number
Accepts(u) == inspectionNumber[u] = 0 /\ inspectionNumber'[u] # 0

\* C19: a handleSubmit that accepts its form has, for every entry of the
\* form whose specification is marked remarks-required when it is called, a
\* remark that is not blank.
C19_RequiredRemarksRefused ==
  [][\A u \in Users :
       Accepts(u) =>
         \A index \in 1..Len(form[u].results) :
           \A sp \in specifications :
             /\ sp.id = form[u].results[index].specification_id
             /\ sp.remarks_required
             => Trim(form[u].results[index].remarks) # ""]_vars

\* the role rows of identity t
RoleRows(t) == {row \in user_roles : row.user_id = t}

\* t has signed up and is not in the course of signing up
Registered(t) == t \in profiles /\ signingUp[t].pc = "idle"

\* the store serves a request that q sent to the role table directly
DirectBy(q) ==
  /\ Len(requester') = Len(requester) + 1
  /\ requester'[Len(requester')] = q

\* the step is a request on the role table by q, from the Users page or
\* sent directly
RoleRequestBy(q) ==
  \/ DirectBy(q)
  \/ \E t \in Users, r \in AppRole \cup {NoRole} : handleRoleChange(q, t, r)

\* signUp of u returns in this step with its role written
SignUpReturns(u) ==
  signingUp[u].pc = "assigning" /\ signingUp'[u].pc = "idle"

\* C21: a step that changes the role rows of a registered identity is a
\* request of an identity that holds quality_head, and a request that an
\* identity without quality_head sends to the role table changes no role row.
C21_OnlyQualityHeadChangesRoles ==
  [][/\ \A t \in Users :
          /\ Registered(t)
          /\ {row \in user_roles' : row.user_id = t} # RoleRows(t)
          => \E q \in Users : has_role(q, "quality_head") /\ RoleRequestBy(q)
     /\ \A q \in Users :
          ~has_role(q, "quality_head") /\ DirectBy(q) =>
            user_roles' = user_roles]_vars

\* C22: a request that an identity holding quality_head sends to the role
\* table leaves the role rows of that identity as they are.
C22_NoSelfModification ==
  [][\A u \in Users :
       has_role(u, "quality_head") /\ RoleRequestBy(u) =>
         {row \in user_roles' : row.user_id = u} = RoleRows(u)]_vars

\* C23: an identity gains quality_head only in the step in which its own
\* registration with the bootstrap code returns, and no step takes
\* quality_head away from an identity.
C23_QualityHeadOnlyByBootstrap ==
  [][\A t \in Users :
       LET before == has_role(t, "quality_head")
           after == [user_id |-> t, role |-> "quality_head"] \in user_roles'
       IN  /\ before => after
           /\ ~before /\ after =>
                /\ SignUpReturns(t)
                /\ signingUp[t].registrationCode = bootstrap_code]_vars

\* C24: in every reachable state every identity has at most one role row.
C24_AtMostOneRole ==
  \A u \in Users : Cardinality(RoleRows(u)) <= 1

\* the Users page of a quality head has listed an identity in the course of
\* its registration, without a role, and has sent its one role change, an
\* insert of a role row for that identity, while the registration wrote the
\* role row: the page shows an error, no request was sent directly, and the
\* identity has the one row of its registration
C24_Witness ==
  /\ toast = "Error"
  /\ roleChanges = 1
  /\ requester = << >>
  /\ Calls = 0
  /\ \E q \in Users, t \in Users :
       /\ q # t
       /\ has_role(q, "quality_head")
       /\ role[q] = "quality_head"
       /\ fetchingUsers[q] = {}
       /\ users[q][t] = NoRole
       /\ \A o \in Users \ {q, t} :
            users[q][o] # NoRole /\ RoleRows(o) # {}
       /\ Registered(t)
       /\ signingUp[t].assigned_role = "auditor"
       /\ RoleRows(t) = {[user_id |-> t, role |-> "auditor"]}

\* C25: when a signUp with the bootstrap code returns without an error, the
\* identity that signed up holds quality_head and no other identity does.
C25_OneBootstrap ==
  [][\A u \in Users :
       SignUpReturns(u) /\ signingUp[u].registrationCode = bootstrap_code =>
         {row \in user_roles' : row.role = "quality_head"} =
           {[user_id |-> u, role |-> "quality_head"]}]_vars

\* signUp of u returns without an error in this step, with or without its
\* role written
SignUpCompletes(u) ==
  /\ signingUp[u].pc \in {"created", "assigning"}
  /\ signingUp'[u].pc = "idle"

\* C26: when a signUp with another code than the bootstrap code returns
\* without an error, the identity that signed up has exactly one role row,
\* with the role auditor.
C26_RegisteredAsAuditor ==
  [][\A u \in Users :
       SignUpCompletes(u) /\ signingUp[u].registrationCode # bootstrap_code
       => {row \in user_roles' : row.user_id = u} =
            {[user_id |-> u, role |-> "auditor"]}]_vars

\* C27: every new inspection is created by an identity that has a role,
\* every appended history entry is of an approver that has a role, and the
\* result rows and evidence rows of an inspection change only while its
\* creator, the one identity that may write them, has a role.
C27_NoRoleNoChange ==
  [][/\ Len(inspections') > Len(inspections) =>
          get_user_role(inspections'[Len(inspections')].created_by) # NoRole
     /\ Len(approval_history') > Len(approval_history) =>
          get_user_role(
            approval_history'[Len(approval_history')].approver_id) # NoRole
     /\ \A i \in InspectionIds :
          \/ {r \in inspection_results' : r.inspection_id = i} # ResultsOf(i)
          \/ {r \in inspection_images' : r.inspection_id = i} # ImagesOf(i)
          => get_user_role(inspections[i].created_by) # NoRole]_vars

\* some result row of the store refers to specification sp
UsedInResults(sp) ==
  \E r \in inspection_results : r.specification_id = sp.id

\* the step is a request to delete specification sp, or the product of sp
DeletionAttempt(sp) ==
  \E u \in Users :
    \/ handleDelete(u, sp.id)
    \/ DeleteSpecification(u, sp.id)
    \/ DeleteProduct(u, sp.product_id)

\* C28: a specification that a result row refers to is still there after
\* every step; a request to delete it, or its product, leaves the
\* specifications and the result rows as they are, and the specification
\* page of a quality head reports that it cannot be deleted.
C28_UsedSpecificationKept ==
  [][\A sp \in specifications :
       UsedInResults(sp) =>
         /\ \E x \in specifications' : x.id = sp.id
         /\ DeletionAttempt(sp) =>
              UNCHANGED <<specifications, inspection_results>>
         /\ \A u \in Users :
              handleDelete(u, sp.id) /\ has_role(u, "quality_head") =>
                toast' = "Cannot Delete Specification"]_vars

\* the specification page has just refused to delete a specification that a
\* result row refers to
C28_Witness ==
  /\ toast = "Cannot Delete Specification"
  /\ \E sp \in specifications : UsedInResults(sp)

\* C29: in every reachable state the product of every inspection exists.
C29_ProductOfInspectionExists ==
  \A i \in InspectionIds :
    inspections[i].product_id \in {p.id : p \in products}

\* the product of an inspection has just been deactivated and is still there
C29_Witness ==
  /\ toast = "Product Deactivated"
  /\ \E i \in InspectionIds, p \in products :
       p.id = inspections[i].product_id /\ ~p.is_active

\* C30: every new inspection is of a product that is active when the
\* inspection is created, and a change of a product leaves the inspections
\* as they are.
C30_NoInspectionOfInactiveProduct ==
  [][/\ Len(inspections') > Len(inspections) =>
          inspections'[Len(inspections')].product_id \in ActiveProducts
     /\ products' # products => inspections' = inspections]_vars

\* C31: after every step no two stored inspections have the same
\* inspection_number, and when handleSubmit sends its insert with a number
\* that a stored inspection already has, no inspection is stored by it.
C31_NumbersUnique ==
  [][/\ \A i \in DOMAIN inspections' : \A j \in DOMAIN inspections' :
          i # j => inspections'[i].inspection_number #
                     inspections'[j].inspection_number
     /\ \A u \in Users :
          /\ inspectionNumber[u] # 0
          /\ inspectionNumber'[u] = 0
          /\ \E i \in InspectionIds :
                inspections[i].inspection_number = inspectionNumber[u]
          => inspections' = inspections]_vars

\* two auditors obtained the same number; the insert of one is stored and
\* awaits its result rows, the insert of the other, whose form passes the
\* validation, has just been refused
C31_Witness ==
  /\ toast = "Error"
  /\ Len(inspections) = 1
  /\ \E u \in Users, v \in Users :
       /\ u # v
       /\ has_role(u, "auditor") /\ role[u] = "auditor" /\ profile[u]
       /\ selectedProduct[u] \in ActiveProducts
       /\ Len(form[u].specifications) > 0
       /\ ~missingValues(form[u]) /\ ~missingRemarks(form[u])
       /\ inspectionNumber[u] = 0 /\ submitting[u] = 0
       /\ inspections[1].created_by = v
       /\ submitting[v] = 1

\* no handleApproval on inspection i is between its two requests
Settled(i) ==
  \A u \in Users : approving[u] = "none" \/ inspection[u].id # i

\* C32: whenever no decision on an inspection is in flight, its history
\* entries, in time order, form a chain that starts at pending_team_leader,
\* each entry starting where the one before ended, and the stored status is
\* where the last entry ended (pending_team_leader without entries).
C32_HistoryExplainsStatus ==
  \A i \in InspectionIds :
    Settled(i) =>
      LET h == HistoryOf(i)
      IN  /\ \A k \in 1..Len(h) :
               h[k].previous_status =
                 IF k = 1 THEN "pending_team_leader" ELSE h[k - 1].new_status
          /\ inspections[i].status =
               IF Len(h) = 0 THEN "pending_team_leader"
               ELSE h[Len(h)].new_status

\* C33: every entry appended to the approval history is a row of the
\* transition table in its previous status, approver role, action and new
\* status, and names as approver the identity whose request appended it.
C33_EntriesAreTableRows ==
  [][Len(approval_history') > Len(approval_history) =>
       LET entry == approval_history'[Len(approval_history')]
       IN  /\ <<entry.previous_status, entry.approver_role, entry.action,
                entry.new_status>> \in TransitionTable
           /\ \A u \in Users :
                \/ Appends(u)
                \/ \E row \in OffTableHistoryInputs, backdated \in BOOLEAN :
                     InsertHistory(u, row, backdated)
                => entry.approver_id = u]_vars

\* C34: a step of handleApproval, its history insert or its status update,
\* leaves the result rows, the evidence rows and the number of inspections
\* as they are, leaves every field but the status of the inspection it
\* targets, and leaves every other inspection and its history unchanged.
C34_DecideTouchesOnlyItsStatus ==
  [][\A u \in Users :
       Appends(u) \/ Completes(u) =>
         /\ UNCHANGED <<inspection_results, inspection_images>>
         /\ DOMAIN inspections' = DOMAIN inspections
         /\ \A i \in InspectionIds :
              IF i = inspection[u].id
              THEN [inspections'[i] EXCEPT !.status = inspections[i].status]
                     = inspections[i]
              ELSE /\ inspections'[i] = inspections[i]
                   /\ HistoryAfter(i) = HistoryOf(i)]_vars

\* a decision has just moved one of two inspections on; the other is where
\* it was, with no entry in its history
C34_Witness ==
  /\ toast = "Approved"
  /\ \E i \in InspectionIds, j \in InspectionIds :
       /\ i # j
       /\ inspections[i].status = "pending_hof_auditor"
       /\ Len(HistoryOf(i)) = 1
       /\ inspections[j].status = "pending_team_leader"
       /\ Len(HistoryOf(j)) = 0
       /\ ResultsOf(j) # {}

\* the place of a status on the way pending_team_leader, pending_hof_auditor,
\* pending_quality_head, approved
Stage(status) ==
  CASE status = "pending_team_leader" -> 1
    [] status = "pending_hof_auditor" -> 2
    [] status = "pending_quality_head" -> 3
    [] OTHER -> 4

\* C35: every change of an inspection's status starts at a pending status
\* and goes to a later status of the way or to rejected; so approved and
\* rejected are never left, and a status changes at most three times.
C35_StatusOnlyForward ==
  [][\A i \in InspectionIds :
       StatusChanges(i) =>
         /\ inspections[i].status \notin {"approved", "rejected"}
         /\ \/ inspections'[i].status = "rejected"
            \/ Stage(inspections'[i].status) > Stage(inspections[i].status)]_vars

\* some UPDATE policy on inspections admits u, by its USING clause, on an
\* inspection of the status
Admitted(u, status) ==
  \E c \in Users :
    inspections_update_using(u, [status |-> status, created_by |-> c])

\* C36: for every identity, with the role it holds, and every status,
\* canApprove is true exactly when a USING clause admits the identity at
\* that status, and where one does, the status getNextStatus computes for
\* either action passes a WITH CHECK clause.
C36_GuardMatchesPolicy ==
  \A u \in Users, status \in InspectionStatus :
    /\ canApprove([id |-> 1, status |-> status], get_user_role(u))
         <=> Admitted(u, status)
    /\ Admitted(u, status) =>
         \A action \in Actions : \E c \in Users :
           inspections_update_check(
             u, [status |-> getNextStatus(status, action), created_by |-> c])

\* C37: when handleSubmit ends with an error after its inspection row was
\* inserted, that row is no longer stored after the step, nor is any result
\* row of it.
C37_SubmitAllOrNothing ==
  [][\A u \in Users :
       submitting[u] # 0 /\ submitting'[u] = 0 /\ toast' = "Error" =>
         /\ submitting[u] \notin DOMAIN inspections'
         /\ \A r \in inspection_results' :
              r.inspection_id # submitting[u]]_vars

\* C38: in every reachable state in which some identity holds a role, some
\* identity holds quality_head.
C38_NeverWithoutHead ==
  user_roles # {} => \E u \in Users : has_role(u, "quality_head")

\* C39: when handleRoleChange of a quality head shows 'Role Updated', the
\* role rows the target has after the step are the one row of the requested
\* role, or none when the role was removed.
C39_RoleChangeSucceedsOnlyIfApplied ==
  [][\A u \in Users, t \in Users, r \in AppRole \cup {NoRole} :
       /\ has_role(u, "quality_head")
       /\ handleRoleChange(u, t, r)
       /\ toast' = "Role Updated"
       =>
         {row \in user_roles' : row.user_id = t} =
           IF r = NoRole THEN {} ELSE {[user_id |-> t, role |-> r]}]_vars

====
